---- MODULE Spec2Model ----
(***************************************************************************)
(* A model of package re (github.com/ghemawat/re): Scan matches a regular  *)
(* expression against a byte slice and stores each capture group into the  *)
(* caller's destinations.  The state is the caller's: the byte buffer that *)
(* backs the input, the destination cells, and the outcome of the call.    *)
(* The regular-expression engine is a black box: a call draws one of the   *)
(* offset lists FindSubmatchIndex can return for the input.                *)
(***************************************************************************)
EXTENDS Integers, Sequences, FiniteSets, TLC

VARIABLES
    buf,       \* the caller's byte array
    off,       \* input is the slice buf[off:]: the caller may have re-sliced
    buf0,      \* the bytes the array held when Scan was called
    pc,        \* "idle": before the call; "done": Scan has returned;
               \* "written": the caller has since overwritten a byte of buf
    groups,    \* the number of capture groups of the pattern (re.NumSubexp())
    matches,   \* what re.FindSubmatchIndex(input) returned (NoMatch: nil)
    output,    \* the kinds of the destinations passed to Scan, in order
    cells,     \* cells[i]: the caller's variable that output[i] refers to
    err,       \* the error Scan returned (Nil: success)
    events,    \* the stores and callback invocations Scan made, in order
    processed, \* how many destinations Scan handed to assign
    intSize,   \* the width in bits of int, uint and uintptr in this build
    value,     \* the integer whose decimal text the caller has put in buf
    re,        \* the Pattern that several calls share (NoPattern where one
               \* call draws the engine's answer as it is made)
    calls      \* calls[c]: the frame of call c of several running at once

vars ==
    <<buf, off, buf0, pc, groups, matches, output, cells, err, events, processed,
      intSize, value, re, calls>>

----------------------------------------------------------------------------
(* Bounds of the model.                                                    *)

MaxLen == 2

MaxDest == 2

\* The numbers of capture groups of the patterns a call may use.
GroupCounts == {0, 1, 2}

\* The bytes that occur in inputs: a digit and a letter.
Byte == {"7", "x"}

----------------------------------------------------------------------------
(* Values.                                                                 *)

\* The nil error.
Nil == [kind |-> "nil"]

\* The nil []int that FindSubmatchIndex returns when nothing matches.
NoMatch == <<>>

\* A Go slice: the offset of its first byte in the caller's array and its
\* length.  The nil slice has no array (ptr -1).  A slice of a freshly
\* allocated array that nothing else refers to is given by the bytes of that
\* array (ptr -2): this is what a copy is.
NilSlice == [ptr |-> -1, len |-> 0, own |-> <<>>]

MakeSlice(p, n) == [ptr |-> p, len |-> n, own |-> <<>>]

Fresh(bytes) == [ptr |-> -2, len |-> Len(bytes), own |-> bytes]

\* The bytes seen through slice b while the caller's array holds mem.
Deref(mem, b) ==
    IF b.ptr = -2 THEN b.own
    ELSE IF b.ptr < 0 THEN <<>>
    ELSE SubSeq(mem, b.ptr + 1, b.ptr + b.len)

\* in[lo:hi] for a slice of the caller's array.
SliceOf(in, lo, hi) == MakeSlice(in.ptr + lo, hi - lo)

\* type Span struct { Start int; End int }
Span(s, e) == [Start |-> s, End |-> e]

\* var NotFound = errors.New("not found")
NotFound == [kind |-> "NotFound"]

\* The same error formatted with %v: the text of NotFound, nothing wrapped.
WrapNotFound_Flattened == [kind |-> "wrapped", wraps |-> Nil]

\* fmt.Errorf("regular expression %q: %w", re, NotFound)
WrapNotFound == [kind |-> "wrapped", wraps |-> NotFound]

\* errors.Is(e, target): e is target or wraps it.
ErrorsIs(e, target) ==
    \/ e = target
    \/ e.kind = "wrapped" /\ e.wraps = target

\* fmt.Errorf(`re.Scan: only got %d matches from "%s"; need at least %d`, ...)
InsufficientMatches(got, need) == [kind |-> "insufficient", got |-> got, need |-> need]

\* fmt.Errorf(`re.Scan: parsing "%s": %s`, b, explanation)
parseError(explanation, text) == [kind |-> "parse", why |-> explanation, text |-> text]

----------------------------------------------------------------------------
(* strconv, as assign uses it: ParseInt(string(b), 0, bitSize) and         *)
(* ParseUint(string(b), 0, bitSize).  Texts are sequences of bytes.        *)

ErrSyntax == "ErrSyntax"

ErrRange == "ErrRange"

\* &strconv.NumError{Func, Num, Err}
NumError(fn, num, e) == [kind |-> "NumError", func |-> fn, num |-> num, err |-> e]

Digits == <<"0", "1", "2", "3", "4", "5", "6", "7", "8", "9">>

LowerLetters ==
    <<"a", "b", "c", "d", "e", "f", "g", "h", "i", "j", "k", "l", "m",
      "n", "o", "p", "q", "r", "s", "t", "u", "v", "w", "x", "y", "z">>

UpperLetters ==
    <<"A", "B", "C", "D", "E", "F", "G", "H", "I", "J", "K", "L", "M",
      "N", "O", "P", "Q", "R", "S", "T", "U", "V", "W", "X", "Y", "Z">>

IndexIn(seq, c) == CHOOSE i \in 1..Len(seq) : seq[i] = c

InSeq(seq, c) == \E i \in 1..Len(seq) : seq[i] = c

\* The value of byte c as a digit ('0'..'9', then letters from 10), -1 if none.
DigitVal(c) ==
    IF InSeq(Digits, c) THEN IndexIn(Digits, c) - 1
    ELSE IF InSeq(LowerLetters, c) THEN IndexIn(LowerLetters, c) + 9
    ELSE IF InSeq(UpperLetters, c) THEN IndexIn(UpperLetters, c) + 9
    ELSE -1

Pow2(n) == 2 ^ n

\* Base 0 as it was before the binary and octal prefixes: "0x" or "0" only.
BasePrefix_HexOctalOnly(s) ==
    IF s # <<>> /\ s[1] = "0"
    THEN IF Len(s) >= 3 /\ s[2] \in {"x", "X"} THEN [base |-> 16, rest |-> SubSeq(s, 3, Len(s))]
         ELSE [base |-> 8, rest |-> Tail(s)]
    ELSE [base |-> 10, rest |-> s]

\* The base a leading "0b", "0o", "0x" or "0" selects, and the digits left.
BasePrefix(s) ==
    IF s # <<>> /\ s[1] = "0"
    THEN IF Len(s) >= 3 /\ s[2] \in {"b", "B"} THEN [base |-> 2, rest |-> SubSeq(s, 3, Len(s))]
         ELSE IF Len(s) >= 3 /\ s[2] \in {"o", "O"} THEN [base |-> 8, rest |-> SubSeq(s, 3, Len(s))]
         ELSE IF Len(s) >= 3 /\ s[2] \in {"x", "X"} THEN [base |-> 16, rest |-> SubSeq(s, 3, Len(s))]
         ELSE [base |-> 8, rest |-> Tail(s)]
    ELSE [base |-> 10, rest |-> s]

\* A uint64, and any natural number the model computes with, is the
\* sequence of its digits in base Limb, lowest first, without a leading
\* zero: the numbers of the model checker are too narrow for 32 and 64 bits.
Limb == 65536

RECURSIVE Norm(_)
Norm(a) ==
    IF a # <<>> /\ a[Len(a)] = 0 THEN Norm(SubSeq(a, 1, Len(a) - 1)) ELSE a

RECURSIVE FromNat(_)
FromNat(n) == IF n = 0 THEN <<>> ELSE <<n % Limb>> \o FromNat(n \div Limb)

\* a * m + c for small m and c.
RECURSIVE MulAdd(_, _, _)
MulAdd(a, m, c) ==
    IF a = <<>> THEN FromNat(c)
    ELSE <<(a[1] * m + c) % Limb>> \o MulAdd(Tail(a), m, (a[1] * m + c) \div Limb)

\* a < b
RECURSIVE Less(_, _)
Less(a, b) ==
    IF Len(a) # Len(b) THEN Len(a) < Len(b)
    ELSE IF a = <<>> THEN FALSE
    ELSE IF a[Len(a)] # b[Len(b)] THEN a[Len(a)] < b[Len(b)]
    ELSE Less(SubSeq(a, 1, Len(a) - 1), SubSeq(b, 1, Len(b) - 1))

\* a - b - borrow for a >= b + borrow, limb by limb.
RECURSIVE SubLimbs(_, _, _)
SubLimbs(a, b, borrow) ==
    IF a = <<>> THEN <<>>
    ELSE IF b = <<>>
    THEN <<(a[1] - borrow + Limb) % Limb>>
             \o SubLimbs(Tail(a), <<>>, IF a[1] - borrow < 0 THEN 1 ELSE 0)
    ELSE <<(a[1] - b[1] - borrow + Limb) % Limb>>
             \o SubLimbs(Tail(a), Tail(b), IF a[1] - b[1] - borrow < 0 THEN 1 ELSE 0)

Sub(a, b) == Norm(SubLimbs(a, b, 0))

\* 1 << w
PowerOfTwo(w) == [i \in 1..(w \div 16) |-> 0] \o <<Pow2(w % 16)>>

\* 1<<w - 1
MaxOfBits(w) == Sub(PowerOfTwo(w), <<1>>)

\* The low w bits of a (w a multiple of 16): the conversion to a uint of w
\* bits.
LowBits(a, w) == Norm(SubSeq(a, 1, IF Len(a) < w \div 16 THEN Len(a) ELSE w \div 16))

\* a / m and a % m for a small m.
RECURSIVE DivRem(_, _)
DivRemStep(lo, hi, m) ==
    [q |-> <<(hi.r * Limb + lo) \div m>> \o hi.q, r |-> (hi.r * Limb + lo) % m]

DivRem(a, m) ==
    IF a = <<>> THEN [q |-> <<>>, r |-> 0]
    ELSE DivRemStep(a[1], DivRem(Tail(a), m), m)

\* An int64 and any integer of the model: a sign and a magnitude; zero has
\* no sign.
Signed(neg, mag) == [neg |-> neg /\ mag # <<>>, mag |-> mag]

IntOf(n) == IF n < 0 THEN Signed(TRUE, FromNat(-n)) ELSE Signed(FALSE, FromNat(n))

\* cutoff = maxUint64/base + 1, for each base that base 0 can select.
CutoffFor(base) == MulAdd(Norm(DivRem(MaxOfBits(64), base).q), 1, 1)

Cutoff2 == CutoffFor(2)

Cutoff8 == CutoffFor(8)

Cutoff10 == CutoffFor(10)

Cutoff16 == CutoffFor(16)

Cutoff(base) ==
    CASE base = 2 -> Cutoff2
      [] base = 8 -> Cutoff8
      [] base = 10 -> Cutoff10
      [] base = 16 -> Cutoff16

\* The digit loop without the test n1 < n for the sum having wrapped.
RECURSIVE ParseDigits(_, _, _, _)
DigitAdd_NoWrapTest(s, base, maxVal, n, n1) ==
    IF Less(maxVal, LowBits(n1, 64))
    THEN [err |-> ErrRange, val |-> maxVal]
    ELSE ParseDigits(Tail(s), base, maxVal, LowBits(n1, 64))

\* The digit loop of ParseUint over the digits s, n being the value so far:
\* the first bad digit is a syntax error; a digit that takes the value to
\* or past the cutoff, around 1<<64, or past maxVal is a range error.
\* n = n1 unless n1 < n (n being the product before the wrap) or n1 > maxVal.
DigitAdd(s, base, maxVal, n, n1) ==
    IF Less(LowBits(n1, 64), LowBits(n, 64)) \/ Less(maxVal, LowBits(n1, 64))
    THEN [err |-> ErrRange, val |-> maxVal]
    ELSE ParseDigits(Tail(s), base, maxVal, LowBits(n1, 64))

DigitStep(d, s, base, maxVal, n) ==
    IF d < 0 \/ d >= base THEN [err |-> ErrSyntax, val |-> <<>>]
    ELSE IF ~Less(n, Cutoff(base)) THEN [err |-> ErrRange, val |-> maxVal]
    ELSE DigitAdd(s, base, maxVal, MulAdd(n, base, 0), MulAdd(n, base, d))

\* In base 0 an underscore is passed over.
ParseDigits(s, base, maxVal, n) ==
    IF s = <<>> THEN [err |-> "none", val |-> n]
    ELSE IF Head(s) = "_" THEN ParseDigits(Tail(s), base, maxVal, n)
    ELSE DigitStep(DigitVal(Head(s)), s, base, maxVal, n)

\* The loop of underscoreOK over s, saw being what came last: "^" the
\* start, "0" a digit or the base prefix, "_" an underscore, "!" another
\* byte.
RECURSIVE UnderscoreLoop(_, _, _)
UnderscoreLoop(s, saw, hex) ==
    IF s = <<>> THEN saw # "_"
    ELSE IF InSeq(Digits, Head(s)) \/ (hex /\ DigitVal(Head(s)) \in 10..15)
    THEN UnderscoreLoop(Tail(s), "0", hex)
    ELSE IF Head(s) = "_"
    THEN saw = "0" /\ UnderscoreLoop(Tail(s), "_", hex)
    ELSE saw # "_" /\ UnderscoreLoop(Tail(s), "!", hex)

UnderscoreBody(s) ==
    IF Len(s) >= 2 /\ s[1] = "0" /\ s[2] \in {"b", "B", "o", "O", "x", "X"}
    THEN UnderscoreLoop(SubSeq(s, 3, Len(s)), "0", s[2] \in {"x", "X"})
    ELSE UnderscoreLoop(s, "^", FALSE)

\* underscoreOK(s): underscores only between digits or after the prefix.
underscoreOK(s) ==
    IF s # <<>> /\ s[1] \in {"+", "-"} THEN UnderscoreBody(Tail(s))
    ELSE UnderscoreBody(s)

\* What ParseUint returns for s when its digit loop ended with r.
UintResult(s, r) ==
    IF r.err = "none"
    THEN IF InSeq(s, "_") /\ ~underscoreOK(s)
         THEN [err |-> NumError("ParseUint", s, ErrSyntax), val |-> <<>>]
         ELSE [err |-> Nil, val |-> r.val]
    ELSE [err |-> NumError("ParseUint", s, r.err), val |-> r.val]

UintOf(s, p, bitSize) ==
    UintResult(s, ParseDigits(p.rest, p.base, MaxOfBits(bitSize), <<>>))

\* strconv.ParseUint(s, 0, bitSize): a uint64
ParseUint(s, bitSize) ==
    IF s = <<>> THEN [err |-> NumError("ParseUint", s, ErrSyntax), val |-> <<>>]
    ELSE UintOf(s, BasePrefix(s), bitSize)

\* ParseInt with one cutoff for both signs: -(1 << (bitSize-1)) is refused.
IntResult_SameCutoff(s, neg, u, cutoff) ==
    IF u.err # Nil /\ u.err.err # ErrRange
    THEN [err |-> NumError("ParseInt", s, u.err.err), val |-> IntOf(0)]
    ELSE IF ~Less(u.val, cutoff)
    THEN [err |-> NumError("ParseInt", s, ErrRange), val |-> Signed(neg, Sub(cutoff, <<1>>))]
    ELSE [err |-> Nil, val |-> Signed(neg, u.val)]

\* What ParseInt returns for s when ParseUint returned u for its digits.
IntResult(s, neg, u, cutoff) ==
    IF u.err # Nil /\ u.err.err # ErrRange
    THEN [err |-> NumError("ParseInt", s, u.err.err), val |-> IntOf(0)]
    ELSE IF ~neg /\ ~Less(u.val, cutoff)
    THEN [err |-> NumError("ParseInt", s, ErrRange), val |-> Signed(FALSE, Sub(cutoff, <<1>>))]
    ELSE IF neg /\ Less(cutoff, u.val)
    THEN [err |-> NumError("ParseInt", s, ErrRange), val |-> Signed(TRUE, cutoff)]
    ELSE [err |-> Nil, val |-> Signed(neg, u.val)]

\* strconv.ParseInt(s, 0, bitSize): an int64
ParseInt(s, bitSize) ==
    IF s = <<>> THEN [err |-> NumError("ParseInt", s, ErrSyntax), val |-> IntOf(0)]
    ELSE IntResult(s, s[1] = "-",
                   ParseUint(IF s[1] \in {"+", "-"} THEN Tail(s) ELSE s, bitSize),
                   PowerOfTwo(bitSize - 1))

----------------------------------------------------------------------------
(* strconv.ParseFloat(s, bitSize), which assign calls for *float32 and      *)
(* *float64.  A float is given by the exact number the text denotes, of    *)
(* which it is the nearest value of its width: two texts with the same     *)
(* record denote the same float.                                           *)

\* lower(c): the lower-case letter of an upper-case one; the parser compares
\* the result with letters only.
lower(c) ==
    IF InSeq(UpperLetters, c) THEN LowerLetters[IndexIn(UpperLetters, c)] ELSE c

RECURSIVE commonPrefixLenIgnoreCase(_, _)
commonPrefixLenIgnoreCase(s, prefix) ==
    IF s = <<>> \/ prefix = <<>> \/ lower(Head(s)) # Head(prefix) THEN 0
    ELSE 1 + commonPrefixLenIgnoreCase(Tail(s), Tail(prefix))

Infinity == <<"i", "n", "f", "i", "n", "i", "t", "y">>

Inf(neg) == [float |-> "inf", neg |-> neg]

NaN == [float |-> "nan"]

NotSpecial == [ok |-> FALSE, n |-> 0, val |-> NaN]

\* The characters of "infinity" that s begins with, "inf" alone if not all.
InfLen(s) ==
    IF 3 < commonPrefixLenIgnoreCase(s, Infinity)
       /\ commonPrefixLenIgnoreCase(s, Infinity) < 8
    THEN 3
    ELSE commonPrefixLenIgnoreCase(s, Infinity)

SpecialInf(s, neg, nsign) ==
    IF InfLen(s) \in {3, 8}
    THEN [ok |-> TRUE, n |-> nsign + InfLen(s), val |-> Inf(neg)]
    ELSE NotSpecial

\* special(s): an infinity or a NaN at the start of s, and its length.
special(s) ==
    IF s = <<>> THEN NotSpecial
    ELSE IF s[1] \in {"+", "-"} THEN SpecialInf(Tail(s), s[1] = "-", 1)
    ELSE IF s[1] \in {"i", "I"} THEN SpecialInf(s, FALSE, 0)
    ELSE IF s[1] \in {"n", "N"} /\ commonPrefixLenIgnoreCase(s, <<"n", "a", "n">>) = 3
    THEN [ok |-> TRUE, n |-> 3, val |-> NaN]
    ELSE NotSpecial

\* The digit loop of readFloat from the 1-based index i on: nd counts the
\* digits from the first that is not zero, dp is where the point stands
\* among them, mant is the number the digits spell (all of them: the slow
\* path of the parser reads the digits the fast one truncates).
RECURSIVE ReadMantissa(_, _, _, _)
ReadMantissa(s, i, base, st) ==
    IF i > Len(s) THEN [st EXCEPT !.i = i]
    ELSE IF s[i] = "_"
    THEN ReadMantissa(s, i + 1, base, [st EXCEPT !.underscores = TRUE])
    ELSE IF s[i] = "."
    THEN IF st.sawdot THEN [st EXCEPT !.i = i]
         ELSE ReadMantissa(s, i + 1, base, [st EXCEPT !.sawdot = TRUE, !.dp = st.nd])
    ELSE IF InSeq(Digits, s[i]) /\ s[i] = "0" /\ st.nd = 0
    THEN ReadMantissa(s, i + 1, base, [st EXCEPT !.sawdigits = TRUE, !.dp = @ - 1])
    ELSE IF InSeq(Digits, s[i]) \/ (base = 16 /\ DigitVal(lower(s[i])) \in 10..15)
    THEN ReadMantissa(s, i + 1, base,
                      [st EXCEPT !.sawdigits = TRUE, !.nd = @ + 1,
                                 !.mant = MulAdd(@, base, DigitVal(s[i]))])
    ELSE [st EXCEPT !.i = i]

\* The digits of the exponent from index i on.
RECURSIVE ReadExpDigits(_, _, _)
ReadExpDigits(s, i, acc) ==
    IF i <= Len(s) /\ (InSeq(Digits, s[i]) \/ s[i] = "_")
    THEN IF s[i] = "_"
         THEN ReadExpDigits(s, i + 1, [acc EXCEPT !.underscores = TRUE])
         ELSE ReadExpDigits(s, i + 1,
                  [acc EXCEPT !.e = IF @ < 10000 THEN @ * 10 + DigitVal(s[i]) ELSE @])
    ELSE [acc EXCEPT !.i = i]

NotRead ==
    [ok |-> FALSE, n |-> 0, neg |-> FALSE, hex |-> FALSE, mant |-> <<>>, dp |-> 0,
     exp |-> 0]

\* The end of readFloat: the exponent is applied and the underscores are
\* checked; st is the state after the mantissa (dp and nd now in bits for a
\* hexadecimal one) and x the exponent read, up to index x.i.
ReadDone(s, neg, hex, st, x) ==
    IF (st.underscores \/ x.underscores) /\ ~underscoreOK(SubSeq(s, 1, x.i - 1))
    THEN NotRead
    ELSE [ok |-> TRUE, n |-> x.i - 1, neg |-> neg, hex |-> hex, mant |-> st.mant,
          dp |-> st.dp + x.e,
          exp |-> IF st.mant # <<>> THEN st.dp + x.e - st.nd ELSE 0]

\* The exponent after the character e or p at index i - 1: a sign, then at
\* least one digit.
ReadExponent(s, neg, hex, st, i) ==
    IF i > Len(s) THEN NotRead
    ELSE IF s[i] \in {"+", "-"}
    THEN IF i + 1 > Len(s) \/ ~InSeq(Digits, s[i + 1]) THEN NotRead
         ELSE ReadDone(s, neg, hex, st,
                       IF s[i] = "-"
                       THEN [ReadExpDigits(s, i + 1, [e |-> 0, underscores |-> FALSE, i |-> i + 1])
                             EXCEPT !.e = 0 - @]
                       ELSE ReadExpDigits(s, i + 1, [e |-> 0, underscores |-> FALSE, i |-> i + 1]))
    ELSE IF ~InSeq(Digits, s[i]) THEN NotRead
    ELSE ReadDone(s, neg, hex, st,
                  ReadExpDigits(s, i, [e |-> 0, underscores |-> FALSE, i |-> i]))

\* readFloat after the mantissa, st.i being where its digits ended.
ReadTail(s, neg, hex, st) ==
    IF ~st.sawdigits THEN NotRead
    ELSE IF st.i <= Len(s) /\ lower(s[st.i]) = (IF hex THEN "p" ELSE "e")
    THEN ReadExponent(s, neg, hex, st, st.i + 1)
    ELSE IF hex THEN NotRead
    ELSE ReadDone(s, neg, hex, st, [e |-> 0, underscores |-> FALSE, i |-> st.i])

\* dp and nd as readFloat leaves them before the exponent: the point after
\* the last digit if there was none, and bits for hexadecimal digits.
PointSet(st, hex) ==
    [st EXCEPT !.dp = (IF st.sawdot THEN st.dp ELSE st.nd) * (IF hex THEN 4 ELSE 1),
               !.nd = st.nd * (IF hex THEN 4 ELSE 1)]

NoDigits ==
    [i |-> 0, sawdot |-> FALSE, sawdigits |-> FALSE, underscores |-> FALSE,
     nd |-> 0, dp |-> 0, mant |-> <<>>]

\* readFloat from index i on, after the sign.
ReadUnsigned(s, neg, i) ==
    IF i + 2 <= Len(s) /\ s[i] = "0" /\ lower(s[i + 1]) = "x"
    THEN ReadTail(s, neg, TRUE, PointSet(ReadMantissa(s, i + 2, 16, NoDigits), TRUE))
    ELSE ReadTail(s, neg, FALSE, PointSet(ReadMantissa(s, i, 10, NoDigits), FALSE))

\* readFloat(s): sign, mantissa and exponent of the number at the start of
\* s, and the number n of characters it takes.
readFloat(s) ==
    IF s = <<>> THEN NotRead
    ELSE IF s[1] \in {"+", "-"} THEN ReadUnsigned(s, s[1] = "-", 2)
    ELSE ReadUnsigned(s, FALSE, 1)

\* a * base^k for base 10 or 2, several factors at a time.
RECURSIVE Scale(_, _, _)
Scale(a, base, k) ==
    IF a = <<>> \/ k <= 0 THEN a
    ELSE IF base = 10 /\ k >= 4 THEN Scale(MulAdd(a, 10000, 0), base, k - 4)
    ELSE IF base = 2 /\ k >= 14 THEN Scale(MulAdd(a, 16384, 0), base, k - 14)
    ELSE Scale(MulAdd(a, base, 0), base, k - 1)

\* The least magnitude that rounds to infinity: half a unit in the last
\* place above the largest float32 or float64.
Overflow(bitSize) ==
    IF bitSize = 32 THEN Sub(PowerOfTwo(128), PowerOfTwo(103))
    ELSE Sub(PowerOfTwo(1024), PowerOfTwo(970))

\* mant * base^exp is too large for a float of bitSize bits; dp is where
\* the point of a decimal number stands: beyond 310 digits the number is
\* too large, and below -330 it is zero, whatever the digits are.
Overflows(mant, base, exp, dp, bitSize) ==
    /\ mant # <<>>
    /\ IF base = 10 /\ dp > 310 THEN TRUE
       ELSE IF base = 10 /\ dp < -330 THEN FALSE
       ELSE IF exp <= 0 /\ Less(mant, Overflow(bitSize)) THEN FALSE
       ELSE ~Less(Scale(mant, base, exp), Scale(Overflow(bitSize), base, 0 - exp))

\* The number without the factors of its base at the end of the mantissa.
RECURSIVE Reduced(_, _, _)
Reduced(mant, base, exp) ==
    IF mant # <<>> /\ DivRem(mant, base).r = 0
    THEN Reduced(Norm(DivRem(mant, base).q), base, exp + 1)
    ELSE [mant |-> mant, base |-> base, exp |-> IF mant = <<>> THEN 0 ELSE exp]

Nearest(bitSize, neg, number) ==
    [float |-> "nearest", bits |-> bitSize, neg |-> neg, mant |-> number.mant,
     base |-> number.base, exp |-> number.exp]

\* The float and error for the number readFloat read: an infinity and a
\* range error when it is too large.
FloatOf(s, f, base, bitSize) ==
    IF Overflows(f.mant, base, f.exp, f.dp, bitSize)
    THEN [err |-> NumError("ParseFloat", s, ErrRange), n |-> f.n, val |-> Inf(f.neg)]
    ELSE [err |-> Nil, n |-> f.n,
          val |-> Nearest(bitSize, f.neg, Reduced(f.mant, base, f.exp))]

FloatZero == Nearest(64, FALSE, [mant |-> <<>>, base |-> 10, exp |-> 0])

\* parseFloatPrefix(s, bitSize): the float at the start of s and its length.
parseFloatPrefix(s, bitSize) ==
    IF special(s).ok THEN [err |-> Nil, n |-> special(s).n, val |-> special(s).val]
    ELSE IF ~readFloat(s).ok
    THEN [err |-> NumError("ParseFloat", s, ErrSyntax), n |-> 0, val |-> FloatZero]
    ELSE FloatOf(s, readFloat(s), IF readFloat(s).hex THEN 2 ELSE 10, bitSize)

\* ParseFloat for the prefix p: a syntax error unless it is all of s.
ParseFloatOf(s, p) ==
    IF p.n # Len(s) /\ (p.err = Nil \/ p.err.err # ErrSyntax)
    THEN [err |-> NumError("ParseFloat", s, ErrSyntax), val |-> FloatZero]
    ELSE [err |-> p.err, val |-> p.val]

\* strconv.ParseFloat(s, bitSize): a float64
ParseFloat(s, bitSize) == ParseFloatOf(s, parseFloatPrefix(s, bitSize))

----------------------------------------------------------------------------
(* Destinations.  A destination is named by its dynamic type; the cell it  *)
(* refers to is the caller's.                                              *)

SignedKinds == {"*int8", "*int16", "*int32", "*int64"}

UnsignedKinds == {"*uint8", "*uint16", "*uint32", "*uint64"}

\* The integer kinds whose width is that of the build.
WordKinds == {"*int", "*uint", "*uintptr"}

IntKinds == SignedKinds \cup UnsignedKinds \cup WordKinds

FloatKinds == {"*float32", "*float64"}

\* The bitSize assign passes to strconv for a destination of kind r.
BitSize(r) ==
    CASE r \in {"*int8", "*uint8"} -> 8
      [] r \in {"*int16", "*uint16"} -> 16
      [] r \in {"*int32", "*uint32", "*float32"} -> 32
      [] OTHER -> 64

\* The two callbacks of TestReFunc: both save their argument in the
\* caller's variable arg; fail returns an error.
FuncKinds == {"savearg", "fail"}

CallbackError == [kind |-> "callback"]

\* The kinds of destination a call of the model may pass; "*mytype" is the
\* unsupported type of TestFind, and "*bool" a type the switch of assign
\* has no case for.
DestKinds ==
    {"nil", "savearg", "fail", "*Span", "*string", "*[]byte", "*int8", "*mytype",
     "*bool"}

NoCell == [t |-> "none"]

StringCell(s) == [t |-> "string", v |-> s]

BytesCell(b) == [t |-> "bytes", v |-> b]

IntCell(n) == [t |-> "int", v |-> n]

SpanCell(s) == [t |-> "span", v |-> s]

MyTypeCell == [t |-> "mytype"]

BoolCell(v) == [t |-> "bool", v |-> v]

FloatCell(f) == [t |-> "float", v |-> f]

\* What the caller's variable holds before the call.
OldCell(r) ==
    CASE r = "nil" -> NoCell
      [] r \in FuncKinds -> StringCell(Fresh(<<"o", "l", "d">>))
      [] r = "*Span" -> SpanCell(Span(9, 9))
      [] r = "*string" -> StringCell(Fresh(<<"o", "l", "d">>))
      [] r = "*[]byte" -> BytesCell(Fresh(<<"o", "l", "d">>))
      [] r \in IntKinds -> IntCell(IntOf(99))
      [] r \in FloatKinds ->
            FloatCell(Nearest(BitSize(r), FALSE, [mant |-> <<99>>, base |-> 10, exp |-> 0]))
      [] r = "*bool" -> BoolCell(FALSE)
      [] OTHER -> MyTypeCell

OldCells(out) == [i \in 1..Len(out) |-> OldCell(out[i])]

Store(pos) == [op |-> "store", pos |-> pos]

Call(pos, arg) == [op |-> "call", pos |-> pos, arg |-> arg]

\* A conversion without the copy: the string shares the bytes of b.
StringOf_SharesBytes(mem, b) == b

\* string(b): a string with a copy of the bytes b has now.
StringOf(mem, b) == Fresh(Deref(mem, b))

\* No case for nil: it falls to the default and is reported as unsupported.
assignNil_Unsupported(cell) ==
    [err |-> parseError(<<"unsupported type", "nil">>, <<>>),
     cell |-> cell, events |-> <<>>]

\* case nil: discard the match.
assignNil(cell) == [err |-> Nil, cell |-> cell, events |-> <<>>]

\* The callback's error reported as a parse error of the sub-match.
assignFunc_Rewraps(r, b, mem, pos) ==
    [err |-> IF r = "fail" THEN parseError(<<"callback failed">>, Deref(mem, b)) ELSE Nil,
     cell |-> StringCell(StringOf(mem, b)),
     events |-> <<Call(pos, Deref(mem, b))>>]

\* The callback left out when the sub-match is empty.
assignFunc_SkipsEmpty(r, b, mem, pos) ==
    IF b.len = 0
    THEN [err |-> Nil, cell |-> OldCell(r), events |-> <<>>]
    ELSE [err |-> IF r = "fail" THEN CallbackError ELSE Nil,
          cell |-> StringCell(StringOf(mem, b)),
          events |-> <<Call(pos, Deref(mem, b))>>]

\* The callback left out when the sub-match is the nil slice.
assignFunc_SkipsNil(r, b, mem, pos) ==
    IF b = NilSlice
    THEN [err |-> Nil, cell |-> OldCell(r), events |-> <<>>]
    ELSE [err |-> IF r = "fail" THEN CallbackError ELSE Nil,
          cell |-> StringCell(StringOf(mem, b)),
          events |-> <<Call(pos, Deref(mem, b))>>]

\* case func([]byte) error: the callback runs with b (it saves string(b))
\* and its error is returned.
assignFunc(r, b, mem, pos) ==
    [err |-> IF r = "fail" THEN CallbackError ELSE Nil,
     cell |-> StringCell(StringOf(mem, b)),
     events |-> <<Call(pos, Deref(mem, b))>>]

\* The span stored as a start and a length.
assignSpan_EndIsLength(s, pos) ==
    [err |-> Nil, cell |-> SpanCell(Span(s.Start, s.End - s.Start)),
     events |-> <<Store(pos)>>]

\* The span counted from the start of the caller's array, not of input.
assignSpan_FromArrayStart(s, pos) ==
    [err |-> Nil, cell |-> SpanCell(Span(s.Start + off, s.End + off)),
     events |-> <<Store(pos)>>]

\* case *Span: *v = s
assignSpan(s, pos) == [err |-> Nil, cell |-> SpanCell(s), events |-> <<Store(pos)>>]

\* case *string: *v = string(b)
assignString(b, mem, pos) ==
    [err |-> Nil, cell |-> StringCell(StringOf(mem, b)), events |-> <<Store(pos)>>]

\* The store of a copy: *v = append([]byte(nil), b...)
assignBytes_Copies(b, pos) ==
    [err |-> Nil, cell |-> BytesCell(Fresh(Deref(buf, b))), events |-> <<Store(pos)>>]

\* case *[]byte: *v = b
assignBytes(b, pos) == [err |-> Nil, cell |-> BytesCell(b), events |-> <<Store(pos)>>]

\* The store of a parsed number n: the parse error is returned with the
\* cell as it was, else *v = n.
StoreNumber(n, cell, pos) ==
    IF n.err # Nil
    THEN [err |-> n.err, cell |-> cell, events |-> <<>>]
    ELSE [err |-> Nil, cell |-> IntCell(n.val), events |-> <<Store(pos)>>]

\* case *int8, *int16, *int32, *int64: strconv.ParseInt(string(b), 0, bits), then the store.
assignInt(r, b, mem, cell, pos) ==
    StoreNumber(ParseInt(Deref(mem, StringOf(mem, b)), BitSize(r)), cell, pos)

\* The uint64 that ParseUint returned, as an integer.
UintValue(u) == [err |-> u.err, val |-> Signed(FALSE, u.val)]

\* case *uint8, *uint16, *uint32, *uint64: strconv.ParseUint(string(b), 0,
\* bits), then the store.
assignUint(r, b, mem, cell, pos) ==
    StoreNumber(UintValue(ParseUint(Deref(mem, StringOf(mem, b)), BitSize(r))), cell, pos)

\* int(i) for an int64 i: the low intSize bits in two's complement.
WrapSigned(u, size) ==
    IF Less(u, PowerOfTwo(size - 1)) THEN Signed(FALSE, u)
    ELSE Signed(TRUE, Sub(PowerOfTwo(size), u))

ToInt(v, size) ==
    IF v.neg /\ LowBits(v.mag, size) # <<>>
    THEN WrapSigned(Sub(PowerOfTwo(size), LowBits(v.mag, size)), size)
    ELSE WrapSigned(LowBits(v.mag, size), size)

\* uint(u), uintptr(u) for a uint64 u.
ToUint(v, size) == Signed(FALSE, LowBits(v.mag, size))

\* The store of a 64-bit number n into a cell of the width of the build,
\* narrow being the number converted to that width: the parse error is
\* returned, or the out-of-range error when the conversion changes the
\* number, else *v = int(i).
StoreWord(r, n, narrow, text, cell, pos) ==
    IF n.err # Nil
    THEN [err |-> n.err, cell |-> cell, events |-> <<>>]
    ELSE IF narrow # n.val
    THEN [err |-> parseError(<<"out of range for", r>>, text),
          cell |-> cell, events |-> <<>>]
    ELSE [err |-> Nil, cell |-> IntCell(narrow), events |-> <<Store(pos)>>]

WordOfInt(r, n, text, cell, pos) ==
    StoreWord(r, n, ToInt(n.val, intSize), text, cell, pos)

WordOfUint(r, n, text, cell, pos) ==
    StoreWord(r, n, ToUint(n.val, intSize), text, cell, pos)

\* case *int: strconv.ParseInt(string(b), 0, 64), the check
\* int64(int(i)) != i, then the store.
assignWordInt(r, b, mem, cell, pos) ==
    WordOfInt(r, ParseInt(Deref(mem, StringOf(mem, b)), 64), Deref(mem, b), cell, pos)

\* case *uint, *uintptr: strconv.ParseUint(string(b), 0, 64), the check
\* uint64(uint(u)) != u, then the store.
assignWordUint(r, b, mem, cell, pos) ==
    WordOfUint(r, UintValue(ParseUint(Deref(mem, StringOf(mem, b)), 64)),
               Deref(mem, b), cell, pos)

\* A default case that reports nothing.
assignDefault_Silent(r, b, mem, cell) == [err |-> Nil, cell |-> cell, events |-> <<>>]

\* default: parseError("unsupported type ...", b)
assignDefault(r, b, mem, cell) ==
    [err |-> parseError(<<"unsupported type", r>>, Deref(mem, b)),
     cell |-> cell, events |-> <<>>]

\* The float stored whatever ParseFloat reports.
StoreFloat_StoresOnError(f, cell, pos) ==
    [err |-> f.err, cell |-> FloatCell(f.val), events |-> <<Store(pos)>>]

\* The end of the cases *float32 and *float64: the error of ParseFloat is
\* returned, or the float is stored.
StoreFloat(f, cell, pos) ==
    IF f.err # Nil
    THEN [err |-> f.err, cell |-> cell, events |-> <<>>]
    ELSE [err |-> Nil, cell |-> FloatCell(f.val), events |-> <<Store(pos)>>]

\* case *float32, *float64: strconv.ParseFloat(string(b), bits), then the
\* store.
assignFloat(r, b, mem, cell, pos) ==
    StoreFloat(ParseFloat(Deref(mem, StringOf(mem, b)), BitSize(r)), cell, pos)

\* assign(r, b, s): what the call does to the cell of destination r at the
\* 1-based position pos, the events it makes, and the error it returns.
assign(r, b, s, mem, cell, pos) ==
    CASE r = "nil" -> assignNil(cell)
      [] r \in FuncKinds -> assignFunc(r, b, mem, pos)
      [] r = "*Span" -> assignSpan(s, pos)
      [] r = "*string" -> assignString(b, mem, pos)
      [] r = "*[]byte" -> assignBytes(b, pos)
      [] r \in SignedKinds -> assignInt(r, b, mem, cell, pos)
      [] r \in UnsignedKinds -> assignUint(r, b, mem, cell, pos)
      [] r = "*int" -> assignWordInt(r, b, mem, cell, pos)
      [] r \in {"*uint", "*uintptr"} -> assignWordUint(r, b, mem, cell, pos)
      [] r \in FloatKinds -> assignFloat(r, b, mem, cell, pos)
      [] OTHER -> assignDefault(r, b, mem, cell)

----------------------------------------------------------------------------
(* The boolean cell of the earlier revisions (Find): case *bool of assign   *)
(* calls parseBool(b, v).                                                  *)

\* The lower-case letter of an upper-case ASCII letter, any other byte as it
\* is: the simple case folding of bytes.EqualFold on one-byte characters.
FoldByte(c) ==
    IF InSeq(UpperLetters, c) THEN LowerLetters[IndexIn(UpperLetters, c)] ELSE c

\* bytes.EqualFold(a, w) for texts whose characters are single bytes.
EqualFold(a, w) ==
    /\ Len(a) = Len(w)
    /\ \A i \in 1..Len(a) : FoldByte(a[i]) = FoldByte(w[i])

\* bytes.HasPrefix under folding in place of the length test and EqualFold.
HasPrefixFold(a, w) ==
    /\ Len(a) >= Len(w)
    /\ EqualFold(SubSeq(a, 1, Len(w)), w)

\* parseBool taking any text that starts with a literal.
parseBool_AcceptsPrefix(b, cell) ==
    CASE Len(b) = 1 /\ b[1] = "0" -> [err |-> Nil, cell |-> BoolCell(FALSE)]
      [] Len(b) = 1 /\ b[1] = "1" -> [err |-> Nil, cell |-> BoolCell(TRUE)]
      [] HasPrefixFold(b, <<"f", "a", "l", "s", "e">>) -> [err |-> Nil, cell |-> BoolCell(FALSE)]
      [] HasPrefixFold(b, <<"t", "r", "u", "e">>) -> [err |-> Nil, cell |-> BoolCell(TRUE)]
      [] OTHER -> [err |-> parseError(<<"not a valid bool">>, b), cell |-> cell]

\* parseBool(b, v): the error it returns and what it leaves in *v.
parseBool(b, cell) ==
    CASE Len(b) = 1 /\ b[1] = "0" -> [err |-> Nil, cell |-> BoolCell(FALSE)]
      [] Len(b) = 1 /\ b[1] = "1" -> [err |-> Nil, cell |-> BoolCell(TRUE)]
      [] Len(b) = 5 /\ EqualFold(b, <<"f", "a", "l", "s", "e">>) ->
            [err |-> Nil, cell |-> BoolCell(FALSE)]
      [] Len(b) = 4 /\ EqualFold(b, <<"t", "r", "u", "e">>) ->
            [err |-> Nil, cell |-> BoolCell(TRUE)]
      [] OTHER -> [err |-> parseError(<<"not a valid bool">>, b), cell |-> cell]

----------------------------------------------------------------------------
(* Scan.                                                                   *)

\* The offsets read from 2*i: the whole match is handed to position 0.
SpanAt_FromWholeMatch(m, i) == Span(m[2 * i + 1], m[2 * i + 2])

\* Span{matches[2+2*i], matches[2+2*i+1]} for the 0-based position i.
SpanAt(m, i) == Span(m[2 + 2 * i + 1], m[2 + 2 * i + 2])

\* A run-time panic: the call does not return.
Panic == [kind |-> "panic"]

\* What a slice expression that panicked yields: nothing.
NoSlice == [ptr |-> -3, len |-> 0, own |-> <<>>]

\* input[lo:hi]: a panic unless 0 <= lo <= hi <= cap(input); the inputs of
\* the model have no capacity beyond their length.
Slicing(in, lo, hi) ==
    IF 0 <= lo /\ lo <= hi /\ hi <= in.len THEN SliceOf(in, lo, hi) ELSE NoSlice

\* The slice taken whatever the offsets are.
Submatch_Unguarded(in, span) == Slicing(in, span.Start, span.End)

\* An absent group handed on as the whole input.
Submatch_AbsentIsInput(in, span) ==
    IF span.Start > -1 /\ span.End >= span.Start
    THEN SliceOf(in, span.Start, span.End)
    ELSE in

\* The sub-match taken from the start of the group to the end of input.
Submatch_ToEndOfInput(in, span) ==
    IF span.Start > -1 /\ span.End >= span.Start
    THEN Slicing(in, span.Start, in.len)
    ELSE NilSlice

\* The submatch Scan hands to assign for a span: input[Start:End], or the
\* nil slice when the group did not take part in the match.
Submatch(in, span) ==
    IF span.Start > -1 /\ span.End >= span.Start
    THEN Slicing(in, span.Start, span.End)
    ELSE NilSlice

\* The loop of Scan from the 0-based position i on, st being the cells,
\* events and error so far; it returns at the first error.
RECURSIVE ScanLoop(_, _, _, _, _, _)
\* One iteration, a being what assign did for position i: its effects are
\* kept and the loop goes on unless assign returned an error.
\* The loop without its return: an error does not stop it.
ScanNext_KeepsGoing(mem, in, m, out, i, st) == ScanLoop(mem, in, m, out, i + 1, st)

\* The loop undoing its stores when assign fails.
ScanNext_Rollback(mem, in, m, out, i, st) ==
    IF st.err # Nil THEN [st EXCEPT !.cells = OldCells(out)]
    ELSE ScanLoop(mem, in, m, out, i + 1, st)

ScanNext(mem, in, m, out, i, st) ==
    IF st.err # Nil THEN st ELSE ScanLoop(mem, in, m, out, i + 1, st)

ScanStep(mem, in, m, out, i, st, a) ==
    ScanNext(mem, in, m, out, i,
             [cells |-> [st.cells EXCEPT ![i + 1] = a.cell],
              events |-> st.events \o a.events,
              err |-> a.err,
              n |-> i + 1])

\* A loop in which a nil destination takes up no capture group: position i
\* gets the group after those of the non-nil destinations before it.
NilsBefore(out, i) == Cardinality({k \in 1..i : out[k] = "nil"})

ScanAssign_NilTakesNoGroup(mem, in, m, out, i, st, span) ==
    ScanStep(mem, in, m, out, i, st,
             assign(out[i + 1],
                    Submatch(in, SpanAt(m, i - NilsBefore(out, i))),
                    SpanAt(m, i - NilsBefore(out, i)),
                    mem, st.cells[i + 1], i + 1))

\* The body of the loop for position i: the slice expression may panic,
\* and then nothing more happens; else assign gets the submatch.
ScanAssign(mem, in, m, out, i, st, span) ==
    IF Submatch(in, span) = NoSlice
    THEN [st EXCEPT !.err = Panic, !.n = i + 1]
    ELSE ScanStep(mem, in, m, out, i, st,
                  assign(out[i + 1], Submatch(in, span), span, mem, st.cells[i + 1],
                         i + 1))

ScanLoop(mem, in, m, out, i, st) ==
    IF i >= Len(out) THEN st
    ELSE ScanAssign(mem, in, m, out, i, st, SpanAt(m, i))

\* Scan checking the number of groups only when the loop runs out of them.
ScanResult_LateArityCheck(mem, in, m, out, old) ==
    IF m = NoMatch
    THEN [cells |-> old, events |-> <<>>, err |-> WrapNotFound, n |-> 0]
    ELSE IF Len(m) < 2 + 2 * Len(out)
    THEN [ScanLoop(mem, in, m, SubSeq(out, 1, Len(m) \div 2 - 1), 0,
                   [cells |-> old, events |-> <<>>, err |-> Nil, n |-> 0])
          EXCEPT !.err = InsufficientMatches(Len(m) \div 2 - 1, Len(out))]
    ELSE ScanLoop(mem, in, m, out, 0,
                  [cells |-> old, events |-> <<>>, err |-> Nil, n |-> 0])

\* Scan refusing a pattern with more groups than there are destinations.
ScanResult_ExactArity(mem, in, m, out, old) ==
    IF m = NoMatch
    THEN [cells |-> old, events |-> <<>>, err |-> WrapNotFound, n |-> 0]
    ELSE IF Len(m) # 2 + 2 * Len(out)
    THEN [cells |-> old, events |-> <<>>,
          err |-> InsufficientMatches(Len(m) \div 2 - 1, Len(out)), n |-> 0]
    ELSE ScanLoop(mem, in, m, out, 0,
                  [cells |-> old, events |-> <<>>, err |-> Nil, n |-> 0])

\* Scan(re, input, output...), m being what re.FindSubmatchIndex(input)
\* returns and old the caller's cells: the cells, events and error the call
\* leaves, and the number n of destinations it handed to assign.
ScanResult(mem, in, m, out, old) ==
    IF m = NoMatch
    THEN [cells |-> old, events |-> <<>>, err |-> WrapNotFound, n |-> 0]
    ELSE IF Len(m) < 2 + 2 * Len(out)
    THEN [cells |-> old, events |-> <<>>,
          err |-> InsufficientMatches(Len(m) \div 2 - 1, Len(out)), n |-> 0]
    ELSE ScanLoop(mem, in, m, out, 0,
                  [cells |-> old, events |-> <<>>, err |-> Nil, n |-> 0])

\* A slice of the array that []byte(input) allocated: nothing of the
\* caller's refers to that array, so the slice is given by its bytes.
Detach(mem, cell) ==
    IF cell.t = "bytes" /\ cell.v.ptr >= 0
    THEN BytesCell(Fresh(Deref(mem, cell.v)))
    ELSE cell

DetachAll(mem, r) ==
    [r EXCEPT !.cells = [i \in 1..Len(r.cells) |-> Detach(mem, r.cells[i])]]

\* ScanString forgetting to hand its destinations on: Scan(re, []byte(input)).
ScanStringResult_NoOutput(s, m, out, old) ==
    [ScanResult(s, MakeSlice(0, Len(s)), m, <<>>, <<>>) EXCEPT !.cells = old]

\* ScanString(re, input, output...), s being the bytes of the string input:
\* Scan(re, []byte(input), output...) on a new array that holds s.
ScanStringResult(s, m, out, old) ==
    DetachAll(s, ScanResult(s, MakeSlice(0, Len(s)), m, out, old))

----------------------------------------------------------------------------
(* The regular-expression engine: what FindSubmatchIndex may return.       *)

\* The offset pairs a group can have inside the match [lo, hi]: absent, or
\* a range within the match.
GroupPairs(lo, hi) ==
    {<<-1, -1>>} \cup {p \in (lo..hi) \X (lo..hi) : p[1] <= p[2]}

RECURSIVE Flatten(_)
Flatten(pairs) ==
    IF pairs = <<>> THEN <<>> ELSE Head(pairs) \o Flatten(Tail(pairs))

\* Every offset list of a pattern with g capture groups that matches an
\* input of n bytes: the match, then each group.
MatchResults(n, g) ==
    UNION { { <<lo, hi>> \o Flatten(gs) : gs \in [1..g -> GroupPairs(lo, hi)] }
            : <<lo, hi>> \in {p \in (0..n) \X (0..n) : p[1] <= p[2]} }

\* No Pattern held in the state: the call draws what the engine answers.
NoPattern == [groups |-> 0, find |-> <<>>]

\* The slice the caller passes as input: the array from off on (the whole
\* array, or what input = input[span.End:] left of it).
Input == MakeSlice(off, Len(buf) - off)

Inputs == UNION {[1..n -> Byte] : n \in 0..MaxLen}

Outputs == UNION {[1..n -> DestKinds] : n \in 0..MaxDest}

----------------------------------------------------------------------------
(* The state machine: the caller fills a buffer, calls Scan once, and may  *)
(* then overwrite a byte of the buffer.                                    *)

Init ==
    /\ buf \in Inputs
    /\ off \in 0..Len(buf)
    /\ buf0 = buf
    /\ pc = "idle"
    /\ groups = 0
    /\ matches = NoMatch
    /\ output = <<>>
    /\ cells = <<>>
    /\ err = Nil
    /\ events = <<>>
    /\ processed = 0
    /\ intSize = 64
    /\ re = NoPattern
    /\ calls = <<>>
    /\ value = IntOf(0)

\* The caller's state when Scan has returned r.
Returned(r) ==
    /\ cells' = r.cells
    /\ events' = r.events
    /\ err' = r.err
    /\ processed' = r.n

\* The caller calls Scan(re, buf, output...): re has g capture groups and
\* re.FindSubmatchIndex(buf) returns m.
Scan(g, m, out) ==
    /\ Returned(ScanResult(buf, Input, m, out, OldCells(out)))
    /\ groups' = g
    /\ matches' = m
    /\ output' = out
    /\ pc' = "done"
    /\ UNCHANGED <<buf, off, buf0, intSize, value, re, calls>>

ScanCall ==
    /\ pc = "idle"
    /\ \E g \in GroupCounts : \E m \in MatchResults(Len(buf) - off, g) \cup {NoMatch} :
         \E out \in Outputs : Scan(g, m, out)

\* After a successful call the caller overwrites one byte of the buffer
\* (b[0] = 'j' in TestReAliasing).
WriteInput ==
    /\ pc = "done"
    /\ err = Nil
    /\ \E k \in 1..Len(buf) : \E c \in Byte \ {buf[k]} :
         buf' = [buf EXCEPT ![k] = c]
    /\ pc' = "written"
    /\ UNCHANGED <<off, buf0, groups, matches, output, cells, err, events, processed,
                   intSize, value, re, calls>>

Next == ScanCall \/ WriteInput

Spec == Init /\ [][Next]_vars

----------------------------------------------------------------------------
(* The caller holds its input as a string and calls ScanString.            *)

\* The caller calls ScanString(re, string(buf[off:]), output...).
ScanString(g, m, out) ==
    /\ Returned(ScanStringResult(Deref(buf, Input), m, out, OldCells(out)))
    /\ groups' = g
    /\ matches' = m
    /\ output' = out
    /\ pc' = "done"
    /\ UNCHANGED <<buf, off, buf0, intSize, value, re, calls>>

ScanStringCall ==
    /\ pc = "idle"
    /\ \E g \in GroupCounts : \E m \in MatchResults(Len(buf) - off, g) \cup {NoMatch} :
         \E out \in Outputs : ScanString(g, m, out)

StringNext == ScanStringCall

StringSpec == Init /\ [][StringNext]_vars

----------------------------------------------------------------------------
(* The boolean conversion on its own: a sub-match and a boolean cell are   *)
(* drawn, and the conversion is applied to them.  The sub-match is in buf, *)
(* the cell is cells[1].                                                   *)

MaxPad == 1

\* The upper-case letter of a lower-case ASCII letter.
UpperByte(c) ==
    IF InSeq(LowerLetters, c) THEN UpperLetters[IndexIn(LowerLetters, c)] ELSE c

\* The texts that differ from w in letter case only.
CaseVariants(w) ==
    { [i \in 1..Len(w) |-> IF i \in S THEN UpperByte(w[i]) ELSE w[i]]
        : S \in SUBSET (1..Len(w)) }

\* The words of the sub-matches: the literals, parts of them, and nothing.
BoolWords ==
    { <<>>, <<"0">>, <<"1">>, <<"t">>, <<"t", "r", "u">>, <<"t", "r", "u", "e">>,
      <<"f", "a", "l", "s">>, <<"f", "a", "l", "s", "e">> }

\* What may stand before and after a word.
Pads == UNION {[1..n -> {"0", "1", "x"}] : n \in 0..MaxPad}

BoolInputs ==
    { p \o v \o q : p \in Pads, q \in Pads,
                    v \in UNION {CaseVariants(w) : w \in BoolWords} }

BoolInit ==
    /\ buf \in BoolInputs
    /\ off = 0
    /\ buf0 = buf
    /\ pc = "idle"
    /\ groups = 1
    /\ matches = NoMatch
    /\ output = <<"*bool">>
    /\ cells \in {<<BoolCell(FALSE)>>, <<BoolCell(TRUE)>>}
    /\ err = Nil
    /\ events = <<>>
    /\ processed = 0
    /\ intSize = 64
    /\ re = NoPattern
    /\ calls = <<>>
    /\ value = IntOf(0)

\* What parseBool returned and left in the cell.
BoolReturned(r) ==
    /\ cells' = <<r.cell>>
    /\ err' = r.err

\* case *bool of assign: parseBool(b, v) on the sub-match.
AssignBool ==
    /\ pc = "idle"
    /\ BoolReturned(parseBool(buf, cells[1]))
    /\ processed' = 1
    /\ pc' = "done"
    /\ UNCHANGED <<buf, off, buf0, groups, matches, output, events, intSize, value, re, calls>>

BoolNext == AssignBool

BoolSpec == BoolInit /\ [][BoolNext]_vars

----------------------------------------------------------------------------
(* The integer conversions on their own: the caller picks an integer       *)
(* destination and a build, puts the decimal text of a value or a literal  *)
(* in the buffer, and scans it with a pattern whose one group is the whole *)
(* input, as TestFind does.                                                *)

MaxDigits == 2

\* The decimal digits of a natural number, highest first.
RECURSIVE FormatDigits(_)
FormatStep(d) == FormatDigits(Norm(d.q)) \o <<Digits[d.r + 1]>>

FormatDigits(a) == IF a = <<>> THEN <<>> ELSE FormatStep(DivRem(a, 10))

\* The decimal text of an integer, as the literals of TestFind spell it.
FormatInt(v) ==
    IF v.mag = <<>> THEN <<"0">>
    ELSE IF v.neg THEN <<"-">> \o FormatDigits(v.mag)
    ELSE FormatDigits(v.mag)

IsSigned(r) == r \in SignedKinds \cup {"*int"}

\* The width of the cell of a destination of kind r in a build whose int
\* has size bits.
WidthOf(r, size) == IF r \in WordKinds THEN size ELSE BitSize(r)

MaxValue(r, size) ==
    IF IsSigned(r) THEN Signed(FALSE, MaxOfBits(WidthOf(r, size) - 1))
    ELSE Signed(FALSE, MaxOfBits(WidthOf(r, size)))

MinValue(r, size) ==
    IF IsSigned(r) THEN Signed(TRUE, PowerOfTwo(WidthOf(r, size) - 1))
    ELSE IntOf(0)

\* v + 1 and v - 1
Add1(v) ==
    IF v.neg THEN Signed(TRUE, Sub(v.mag, <<1>>)) ELSE Signed(FALSE, MulAdd(v.mag, 1, 1))

Sub1(v) ==
    IF v.neg \/ v.mag = <<>> THEN Signed(TRUE, MulAdd(v.mag, 1, 1))
    ELSE Signed(FALSE, Sub(v.mag, <<1>>))

\* The values the caller formats for a destination of kind r: the ends of
\* the type's range and their neighbours, and every value from -130 to 257.
Samples(r, size) ==
    { Sub1(MinValue(r, size)), MinValue(r, size), Add1(MinValue(r, size)),
      Sub1(MaxValue(r, size)), MaxValue(r, size), Add1(MaxValue(r, size)) }
        \cup { IntOf(n) : n \in -130..257 }

\* The literals the caller writes: a sign or none, a base prefix or none,
\* and up to MaxDigits digits.
Literals ==
    { sg \o px \o ds :
        sg \in {<<>>, <<"+">>, <<"-">>},
        px \in {<<>>, <<"0">>, <<"0", "x">>, <<"0", "X">>, <<"0", "b">>, <<"0", "B">>,
                <<"0", "o">>, <<"0", "O">>},
        ds \in UNION {[1..n -> {"0", "1", "7", "8", "f", "_"}] : n \in 0..MaxDigits} }

NumInit ==
    /\ buf = <<>>
    /\ off = 0
    /\ buf0 = <<>>
    /\ pc = "idle"
    /\ groups = 1
    /\ matches = NoMatch
    /\ output \in {<<r>> : r \in IntKinds}
    /\ cells = OldCells(output)
    /\ err = Nil
    /\ events = <<>>
    /\ processed = 0
    /\ intSize \in {32, 64}
    /\ re = NoPattern
    /\ calls = <<>>
    /\ value = IntOf(0)

\* The caller puts the decimal text of a value in the buffer.
FormatValue ==
    /\ pc = "idle"
    /\ \E v \in Samples(output[1], intSize) :
         /\ value' = v
         /\ buf' = FormatInt(v)
         /\ buf0' = FormatInt(v)
    /\ pc' = "text"
    /\ UNCHANGED <<off, groups, matches, output, cells, err, events, processed, intSize, re, calls>>

\* The caller puts a literal in the buffer.
WriteLiteral ==
    /\ pc = "idle"
    /\ \E s \in Literals : buf' = s /\ buf0' = s
    /\ pc' = "literal"
    /\ UNCHANGED <<off, groups, matches, output, cells, err, events, processed,
                   intSize, value, re, calls>>

\* The offsets of a pattern whose one group takes the n bytes of the input.
WholeMatch(n) == <<0, n, 0, n>>

\* re.Scan(pattern, buf, output[0])
ScanNumber ==
    /\ pc \in {"text", "literal"}
    /\ Returned(ScanResult(buf, Input, WholeMatch(Len(buf)), output, cells))
    /\ matches' = WholeMatch(Len(buf))
    /\ pc' = IF pc = "text" THEN "scanned" ELSE "parsed"
    /\ UNCHANGED <<buf, off, buf0, groups, output, intSize, value, re, calls>>

NumNext == FormatValue \/ WriteLiteral \/ ScanNumber

NumSpec == NumInit /\ [][NumNext]_vars

----------------------------------------------------------------------------
(* The first revision, Find(r, data string, results...) bool: the input is *)
(* a string, and the outcome is true or false.                             *)

\* Find returned false; Nil stands for true.
False == [kind |-> "false"]

\* strings.ToLower on texts whose characters are single bytes.
ToLower(s) == [k \in 1..Len(s) |-> lower(s[k])]

\* parseBool(s, v) of this revision: "0", "1", and "true" and "false" in
\* any letter case.
parseBoolOfString(s, cell, pos) ==
    IF s = <<"0">> \/ ToLower(s) = <<"f", "a", "l", "s", "e">>
    THEN [err |-> Nil, cell |-> BoolCell(FALSE), events |-> <<Store(pos)>>]
    ELSE IF s = <<"1">> \/ ToLower(s) = <<"t", "r", "u", "e">>
    THEN [err |-> Nil, cell |-> BoolCell(TRUE), events |-> <<Store(pos)>>]
    ELSE [err |-> False, cell |-> cell, events |-> <<>>]

\* assign(s, r) of this revision, for the kinds of result the model passes.
assignResult(s, r, cell, pos) ==
    CASE r = "nil" -> [err |-> Nil, cell |-> cell, events |-> <<>>]
      [] r = "*string" ->
            [err |-> Nil, cell |-> StringCell(Fresh(s)), events |-> <<Store(pos)>>]
      [] r = "*[]byte" ->
            [err |-> Nil, cell |-> BytesCell(Fresh(s)), events |-> <<Store(pos)>>]
      [] r = "*bool" -> parseBoolOfString(s, cell, pos)
      [] OTHER -> [err |-> False, cell |-> cell, events |-> <<>>]

\* The loop of assignResults from the 0-based position i on.
RECURSIVE ResultsLoop(_, _, _, _, _)
\* The iteration for a sub-expression that is missing: true is returned for
\* a nil result, false for any other, and the loop is left either way.
MissingResult(r, i, st) ==
    [st EXCEPT !.err = IF r = "nil" THEN Nil ELSE False, !.n = i + 1]

ResultStep(data, m, out, i, st, a) ==
    IF a.err # Nil
    THEN [cells |-> st.cells, events |-> st.events, err |-> a.err, n |-> i + 1]
    ELSE ResultsLoop(data, m, out, i + 1,
                     [cells |-> [st.cells EXCEPT ![i + 1] = a.cell],
                      events |-> st.events \o a.events,
                      err |-> Nil,
                      n |-> i + 1])

ResultsLoop(data, m, out, i, st) ==
    IF i >= Len(out) THEN st
    ELSE IF m[2 * i + 3] < 0 \/ m[2 * i + 4] < 0
    THEN MissingResult(out[i + 1], i, st)
    ELSE ResultStep(data, m, out, i, st,
                    assignResult(SubSeq(data, m[2 * i + 3] + 1, m[2 * i + 4]),
                                 out[i + 1], st.cells[i + 1], i + 1))

\* assignResults(data, matches, results): the cells and the outcome it
\* leaves, and the number n of results the loop came to.
assignResults(data, m, out, old) ==
    IF m = NoMatch
    THEN [cells |-> old, events |-> <<>>, err |-> False, n |-> 0]
    ELSE IF Len(m) < 2 + 2 * Len(out)
    THEN [cells |-> old, events |-> <<>>, err |-> False, n |-> 0]
    ELSE ResultsLoop(data, m, out, 0,
                     [cells |-> old, events |-> <<>>, err |-> Nil, n |-> 0])

FindBytes == {"1", "x"}

FindInputs == UNION {[1..n -> FindBytes] : n \in 0..MaxLen}

FindKinds == {"nil", "*string", "*bool", "*mytype"}

FindOutputs == UNION {[1..n -> FindKinds] : n \in 0..MaxDest}

FindInit ==
    /\ buf \in FindInputs
    /\ off = 0
    /\ buf0 = buf
    /\ pc = "idle"
    /\ groups = 0
    /\ matches = NoMatch
    /\ output = <<>>
    /\ cells = <<>>
    /\ err = Nil
    /\ events = <<>>
    /\ processed = 0
    /\ intSize = 64
    /\ value = IntOf(0)
    /\ re = NoPattern
    /\ calls = <<>>

\* Find(r, data, results...): r has g capture groups and
\* r.FindStringSubmatchIndex(data) returns m.
StringFind(g, m, out) ==
    /\ Returned(assignResults(buf, m, out, OldCells(out)))
    /\ groups' = g
    /\ matches' = m
    /\ output' = out
    /\ pc' = "done"
    /\ UNCHANGED <<buf, off, buf0, intSize, value, re, calls>>

FindCall ==
    /\ pc = "idle"
    /\ \E g \in GroupCounts : \E m \in MatchResults(Len(buf), g) \cup {NoMatch} :
         \E out \in FindOutputs : StringFind(g, m, out)

FindNext == FindCall

FindSpec == FindInit /\ [][FindNext]_vars

----------------------------------------------------------------------------
(* The caller scans a text, valid or not, into one numeric or boolean      *)
(* cell, as the cases of TestFind whose expected result is false do.       *)

\* The bytes of the texts: two digits, a letter, and the point, the
\* exponent letter and the sign of a floating-point literal.
TextBytes == {"0", "7", "x", ".", "e", "-"}

\* The texts the caller scans: every text of up to MaxDigits of these bytes,
\* and the floating-point literals of TestFind.
Texts ==
    UNION {[1..n -> TextBytes] : n \in 0..MaxDigits}
        \cup {<<"1", ".", "2", "5", "e", "2">>, <<"1", "e", "4", "0">>,
              <<"1", "e", "4", "0", "0">>}

TextKinds == IntKinds \cup FloatKinds \cup {"*bool"}

TextInit ==
    /\ buf = <<>>
    /\ off = 0
    /\ buf0 = <<>>
    /\ pc = "idle"
    /\ groups = 1
    /\ matches = NoMatch
    /\ output \in {<<r>> : r \in TextKinds}
    /\ cells = OldCells(output)
    /\ err = Nil
    /\ events = <<>>
    /\ processed = 0
    /\ intSize \in {32, 64}
    /\ re = NoPattern
    /\ calls = <<>>
    /\ value = IntOf(0)

\* The caller puts a text in the buffer.
WriteText ==
    /\ pc = "idle"
    /\ \E s \in Texts : buf' = s /\ buf0' = s
    /\ pc' = "literal"
    /\ UNCHANGED <<off, groups, matches, output, cells, err, events, processed,
                   intSize, value, re, calls>>

TextNext == WriteText \/ ScanNumber

TextSpec == TextInit /\ [][TextNext]_vars

----------------------------------------------------------------------------
(* The loop of TestSpan: the whole pattern is in a capture group bound to  *)
(* a Span, and after each success the caller goes on with what follows the *)
(* match, input = input[span.End:], until Scan fails.  Here the Pattern is *)
(* the set of the texts it matches, and whether it prefers the longest or  *)
(* the shortest of those that begin at the same place.                     *)

Words == {w \in Inputs : Len(w) <= 2}

SpanPatterns == [groups : {1}, lang : SUBSET Words, greedy : BOOLEAN]

\* The word w stands in the text t at the 0-based offset k.
OccursAt(t, k, w) == k + Len(w) <= Len(t) /\ SubSeq(t, k + 1, k + Len(w)) = w

\* The offsets of t at which a match of p begins.
MatchStarts(p, t) == {k \in 0..Len(t) : \E w \in p.lang : OccursAt(t, k, w)}

\* The ends of the matches of p that begin at k.
MatchEnds(p, t, k) == {k + Len(w) : w \in {v \in p.lang : OccursAt(t, k, v)}}

Least(S) == CHOOSE k \in S : \A j \in S : k <= j

Greatest(S) == CHOOSE k \in S : \A j \in S : k >= j

\* The match that begins at k, the whole of it being group 1.
MatchFrom(p, t, k) ==
    IF p.greedy
    THEN <<k, Greatest(MatchEnds(p, t, k)), k, Greatest(MatchEnds(p, t, k))>>
    ELSE <<k, Least(MatchEnds(p, t, k)), k, Least(MatchEnds(p, t, k))>>

\* p.FindSubmatchIndex(t): the leftmost match of p in t, nil if none.
FindSubmatchIndex(p, t) ==
    IF MatchStarts(p, t) = {} THEN NoMatch
    ELSE MatchFrom(p, t, Least(MatchStarts(p, t)))

RepeatInit ==
    /\ buf \in Inputs
    /\ off = 0
    /\ buf0 = buf
    /\ pc = "idle"
    /\ groups = 1
    /\ matches = NoMatch
    /\ output = <<"*Span">>
    /\ cells = OldCells(output)
    /\ err = Nil
    /\ events = <<>>
    /\ processed = 0
    /\ intSize = 64
    /\ value = IntOf(0)
    /\ re \in SpanPatterns
    /\ calls = <<>>

\* err := re.Scan(pattern, input, &span), span being a new variable.
RepeatScan ==
    /\ pc = "idle"
    /\ matches' = FindSubmatchIndex(re, Deref(buf, Input))
    /\ Returned(ScanResult(buf, Input, matches', output, OldCells(output)))
    /\ pc' = "done"
    /\ UNCHANGED <<buf, off, buf0, groups, output, intSize, value, re, calls>>

\* input = input[span.End:]
Advance ==
    /\ pc = "done"
    /\ err = Nil
    /\ off' = off + cells[1].v.End
    /\ pc' = "idle"
    /\ UNCHANGED <<buf, buf0, groups, matches, output, cells, err, events, processed,
                   intSize, value, re, calls>>

RepeatNext == RepeatScan \/ Advance

\* The caller's loop runs on as long as it can.
RepeatSpec == RepeatInit /\ [][RepeatNext]_vars /\ WF_vars(RepeatNext)

----------------------------------------------------------------------------
(* Several goroutines call Scan at once with one Pattern, each on its own  *)
(* input array and its own destinations.  A step is one statement of Scan  *)
(* (the call of the engine, a test, one iteration of the loop); the steps  *)
(* of the calls interleave in every order.                                 *)

Calls == {"a", "b"}

ConcGroups == {1, 2}

\* The destination lists the calls pass: the first destinations of these.
ConcLists ==
    {<<"savearg", "*int8", "*[]byte">>, <<"*int8", "*[]byte", "savearg">>}

ConcInputs == {b \in Inputs : Len(b) = 1}

ConcOutputs == {SubSeq(l, 1, n) : l \in ConcLists, n \in 0..MaxDest}

\* What re.FindSubmatchIndex can answer for input b when re has g groups.
FindResults(b, g) == MatchResults(Len(b), g) \cup {NoMatch}

\* The Patterns over the inputs ins: a number of capture groups and, the
\* engine being reentrant and the Pattern immutable, one answer per input.
Patterns(ins) ==
    UNION { { [groups |-> g, find |-> f] :
              f \in { h \in [ins -> UNION {FindResults(b, g) : b \in ins}] :
                      \A b \in ins : h[b] \in FindResults(b, g) } }
            : g \in ConcGroups }

\* The frame of a call that has not begun: its arguments, and its locals
\* matches and i not yet set.
NewFrame(in, out) ==
    [pc |-> "start", input |-> in, output |-> out, cells |-> OldCells(out),
     matches |-> NoMatch, i |-> 0, err |-> Nil, events |-> <<>>]

ConcInit ==
    /\ buf = <<>>
    /\ off = 0
    /\ buf0 = <<>>
    /\ pc = "idle"
    /\ groups = 0
    /\ matches = NoMatch
    /\ output = <<>>
    /\ cells = <<>>
    /\ err = Nil
    /\ events = <<>>
    /\ processed = 0
    /\ intSize = 64
    /\ value = IntOf(0)
    /\ \E ins \in [Calls -> ConcInputs], outs \in [Calls -> ConcOutputs] :
         /\ calls = [c \in Calls |-> NewFrame(ins[c], outs[c])]
         /\ re \in Patterns({ins[c] : c \in Calls})

\* A variable matches that is not a local of Scan but one of the package:
\* every call uses the same one.
MatchesOwner_Shared(c) == "a"

\* Where the variable matches of call c is: in the call's own frame.
MatchesOwner(c) == c

MatchesOf(c) == calls[MatchesOwner(c)].matches

\* The slice call c was passed: the whole of its array.
InputOf(c) == MakeSlice(0, Len(calls[c].input))

ConcFrame == UNCHANGED <<buf, off, buf0, pc, groups, matches, output, cells, err,
                         events, processed, intSize, value, re>>

\* matches := re.FindSubmatchIndex(input)
Find(c) ==
    /\ calls[c].pc = "start"
    /\ calls' = [calls EXCEPT ![MatchesOwner(c)].matches = re.find[calls[c].input],
                              ![c].pc = "found"]
    /\ ConcFrame

\* if matches == nil { return ... NotFound }
CheckFound(c) ==
    /\ calls[c].pc = "found"
    /\ calls' = IF MatchesOf(c) = NoMatch
                THEN [calls EXCEPT ![c].err = WrapNotFound, ![c].pc = "returned"]
                ELSE [calls EXCEPT ![c].pc = "matched"]
    /\ ConcFrame

\* if len(matches) < 2+2*len(output) { return ... }
CheckArity(c) ==
    /\ calls[c].pc = "matched"
    /\ calls' = IF Len(MatchesOf(c)) < 2 + 2 * Len(calls[c].output)
                THEN [calls EXCEPT
                        ![c].err = InsufficientMatches(Len(MatchesOf(c)) \div 2 - 1,
                                                       Len(calls[c].output)),
                        ![c].pc = "returned"]
                ELSE [calls EXCEPT ![c].pc = "loop"]
    /\ ConcFrame

\* What assign does for the destination at 0-based position i of call c.
AssignOf(c, i, span) ==
    assign(calls[c].output[i + 1], Submatch(InputOf(c), span), span,
           calls[c].input, calls[c].cells[i + 1], i + 1)

\* An iteration that clears the destinations after a failed one.
Iterated_ClearsLater(c, i, a) ==
    [calls EXCEPT ![c].cells = [k \in 1..Len(@) |->
                                  IF k = i + 1 THEN a.cell
                                  ELSE IF a.err # Nil /\ k > i + 1 THEN NoCell
                                  ELSE @[k]],
                  ![c].events = @ \o a.events,
                  ![c].err = a.err,
                  ![c].i = i + 1,
                  ![c].pc = IF a.err # Nil THEN "returned" ELSE "loop"]

\* The frame of call c after the iteration in which assign did a.
Iterated(c, i, a) ==
    [calls EXCEPT ![c].cells[i + 1] = a.cell,
                  ![c].events = @ \o a.events,
                  ![c].err = a.err,
                  ![c].i = i + 1,
                  ![c].pc = IF a.err # Nil THEN "returned" ELSE "loop"]

\* One iteration of the loop of call c, for position i.
Iteration(c, i, span) ==
    IF Submatch(InputOf(c), span) = NoSlice
    THEN calls' = [calls EXCEPT ![c].err = Panic, ![c].pc = "returned"]
    ELSE calls' = Iterated(c, i, AssignOf(c, i, span))

Iterate(c) ==
    /\ calls[c].pc = "loop"
    /\ calls[c].i < Len(calls[c].output)
    /\ Iteration(c, calls[c].i, SpanAt(MatchesOf(c), calls[c].i))
    /\ ConcFrame

\* The loop is over: return nil.
Return(c) ==
    /\ calls[c].pc = "loop"
    /\ calls[c].i >= Len(calls[c].output)
    /\ calls' = [calls EXCEPT ![c].pc = "returned"]
    /\ ConcFrame

ConcNext ==
    \E c \in Calls : Find(c) \/ CheckFound(c) \/ CheckArity(c) \/ Iterate(c) \/ Return(c)

ConcSpec == ConcInit /\ [][ConcNext]_vars

----------------------------------------------------------------------------
(* What the claims speak of, read off the state of a finished call.        *)

Matched == matches # NoMatch

NumDest == Len(output)

\* Capture group i (1-based; destination position i - 1) took part in the
\* match.
GroupPresent(i) == matches[2 * i + 1] > -1

\* The bytes of capture group i in the input as it was passed to Scan; an
\* absent group has none.
GroupBytes(i) ==
    IF GroupPresent(i)
    THEN SubSeq(buf0, off + matches[2 * i + 1] + 1, off + matches[2 * i + 2])
    ELSE <<>>

\* The bytes convert successfully for a destination of kind r.
Converts(r, bytes) ==
    CASE r \in {"nil", "savearg", "*Span", "*string", "*[]byte"} -> TRUE
      [] r = "*int8" -> ParseInt(bytes, 8).err = Nil
      [] OTHER -> FALSE

ConvertsAt(i) == Converts(output[i], GroupBytes(i))

\* The error a destination of kind r reports for bytes that do not convert.
ConversionError(r, bytes) ==
    CASE r = "fail" -> CallbackError
      [] r = "*int8" -> ParseInt(bytes, 8).err
      [] OTHER -> parseError(<<"unsupported type", r>>, bytes)

\* The cell of the destination at 1-based position i holds the converted
\* value of capture group i.
CellHolds(i) ==
    CASE output[i] \in {"*string", "*[]byte", "savearg", "fail"} ->
            Deref(buf0, cells[i].v) = GroupBytes(i)
      [] output[i] = "*Span" ->
            cells[i].v = Span(matches[2 * i + 1], matches[2 * i + 2])
      [] output[i] = "*int8" ->
            cells[i].v = ParseInt(GroupBytes(i), 8).val
      [] OTHER -> FALSE

\* The lowest position whose destination does not convert (0: none).
FirstFail ==
    IF \A i \in 1..NumDest : ConvertsAt(i) THEN 0
    ELSE CHOOSE i \in 1..NumDest :
            ~ConvertsAt(i) /\ \A j \in 1..(i - 1) : ConvertsAt(j)

Untouched(i) ==
    /\ cells[i] = OldCell(output[i])
    /\ \A e \in 1..Len(events) : events[e].pos # i

----------------------------------------------------------------------------
(* The claims.                                                             *)

\* C1: Scan returns nil exactly when the pattern matches, there are no more
\* destinations than capture groups, and the bytes of capture group i+1
\* convert for every destination at position i; and then every non-nil
\* destination's cell holds the converted value of its group (the whole
\* match, group 0, goes to no destination).
C1_NilIffAllConvert ==
    pc = "done" =>
        /\ (err = Nil) <=>
              /\ Matched
              /\ NumDest <= groups
              /\ \A i \in 1..NumDest : ConvertsAt(i)
        /\ err = Nil => \A i \in 1..NumDest : output[i] # "nil" => CellHolds(i)

\* A successful call with a text and a number, whose first group is not the
\* whole match.
C1_Witness ==
    /\ pc = "done" /\ err = Nil
    /\ output = <<"*string", "*int8">>
    /\ <<matches[1], matches[2]>> # <<matches[3], matches[4]>>
    /\ Deref(buf, cells[1].v) = <<"x">>
    /\ cells[2].v = IntOf(7)

\* C2: when the pattern matches nowhere, Scan returns an error wrapping
\* NotFound and has touched nothing: no cell written, no callback invoked,
\* whatever the destinations are.
C2_NotFoundTouchesNothing ==
    pc = "done" /\ ~Matched =>
        /\ ErrorsIs(err, NotFound)
        /\ cells = OldCells(output)
        /\ events = <<>>
        /\ processed = 0

\* No match, more destinations than groups, an unsupported kind and a
\* callback among them.
C2_Witness ==
    /\ pc = "done" /\ ~Matched
    /\ NumDest > groups
    /\ output = <<"*mytype", "savearg">>
    /\ ErrorsIs(err, NotFound)

\* C3: with more destinations than capture groups, a call on an input the
\* pattern matches fails with the insufficient-matches error before any
\* destination is touched.
C3_InsufficientTouchesNothing ==
    pc = "done" /\ Matched /\ NumDest > groups =>
        /\ err = InsufficientMatches(groups, NumDest)
        /\ cells = OldCells(output)
        /\ events = <<>>
        /\ processed = 0

\* One group that would convert, two destinations.
C3_Witness ==
    /\ pc = "done" /\ Matched
    /\ groups = 1
    /\ output = <<"*string", "savearg">>
    /\ GroupBytes(1) = <<"7">>
    /\ err = InsufficientMatches(1, 2)

\* C4: destinations are processed in list order; the error returned is that
\* of the lowest position that fails, and no later position is processed:
\* its cell keeps its value and its callback is not invoked.
C4_ShortCircuitOrder ==
    pc = "done" /\ Matched /\ NumDest <= groups =>
        /\ \A a \in 1..Len(events) : \A b \in 1..Len(events) :
              a < b => events[a].pos < events[b].pos
        /\ FirstFail # 0 =>
              /\ err = ConversionError(output[FirstFail], GroupBytes(FirstFail))
              /\ processed = FirstFail
              /\ \A j \in (FirstFail + 1)..NumDest : Untouched(j)

\* [B, A]: the number fails first, the text that would convert is never
\* written.
C4_Witness ==
    /\ pc = "done" /\ Matched /\ groups = 2
    /\ output = <<"*int8", "*string">>
    /\ GroupBytes(1) = <<"x">> /\ GroupBytes(2) = <<"7">>
    /\ err # Nil
    /\ Untouched(2)

\* C5: when Scan fails at position k, every non-discard cell before k holds
\* the newly converted value of its group, not its value from before the
\* call.
C5_NoRollback ==
    pc = "done" /\ Matched /\ NumDest <= groups /\ err # Nil =>
        \A i \in 1..(FirstFail - 1) : output[i] # "nil" => CellHolds(i)

\* [A, B]: the text is written, then the number fails.
C5_Witness ==
    /\ pc = "done" /\ Matched /\ groups = 2
    /\ output = <<"*string", "*int8">>
    /\ GroupBytes(1) = <<"7">> /\ GroupBytes(2) = <<"x">>
    /\ err # Nil
    /\ cells[1] # OldCell("*string")
    /\ Deref(buf, cells[1].v) = <<"7">>

\* The kinds of the model that are cells of the kinds the absent-group
\* policy names.
CellKinds == {"*string", "*[]byte", "*int8", "*Span"}

C7_DiscardNeverFails ==
    pc = "done" /\ Matched /\ NumDest <= groups =>
        /\ \A i \in 1..NumDest :
              output[i] = "nil" =>
                  /\ Untouched(i)
                  /\ (i <= processed /\ i < NumDest) => processed >= i + 1
                  /\ (i <= processed /\ i = NumDest) => err = Nil
        /\ (\A i \in 1..NumDest : output[i] = "nil") => err = Nil

\* A discard at an absent group, then a text cell that is written.
C7_Witness ==
    /\ pc = "done" /\ Matched /\ groups = 2
    /\ output = <<"nil", "*string">>
    /\ ~GroupPresent(1)
    /\ GroupBytes(2) = <<"7", "x">>
    /\ err = Nil /\ processed = 2
    /\ cells[1] = NoCell
    /\ Deref(buf, cells[2].v) = <<"7", "x">>

\* The destinations with position j replaced by the discard marker, and
\* what the same call returns for them.
Discarded(j) == [output EXCEPT ![j] = "nil"]

Rerun(j) ==
    ScanResult(buf0, Input, matches, Discarded(j), OldCells(Discarded(j)))

\* Position i fares the same, and its cell ends the same, in the call of
\* the state and in the call that returned r, if both processed it; and if
\* the call of the state succeeded so did the other, with the same cells
\* but for j.
SameElsewhere(j, r) ==
    /\ \A i \in (1..NumDest) \ {j} :
          (i <= processed /\ i <= r.n) =>
              /\ ((err # Nil /\ processed = i) <=> (r.err # Nil /\ r.n = i))
              /\ r.cells[i] = cells[i]
    /\ err = Nil =>
          /\ r.err = Nil
          /\ \A i \in (1..NumDest) \ {j} : r.cells[i] = cells[i]

\* C8: replacing any destination j by the discard marker changes neither
\* the outcome nor the stored value of any other position processed in both
\* calls, and a call that succeeded still succeeds with the same values in
\* all other cells.
C8_DiscardTransparency ==
    pc = "done" => \A j \in 1..NumDest : SameElsewhere(j, Rerun(j))

\* A successful call with two cells, either of which can be discarded; the
\* two groups differ.
C8_Witness ==
    /\ pc = "done" /\ Matched /\ groups = 2
    /\ output = <<"*int8", "*string">>
    /\ GroupBytes(1) = <<"7">> /\ GroupBytes(2) = <<"x">>
    /\ err = Nil
    /\ Rerun(1).err = Nil
    /\ Rerun(1).cells[2] = cells[2]

\* C9: after a successful call the slice stored in a raw-byte destination
\* is a view of the input: a byte written to the input at offset k inside
\* the group's range is read through the destination at offset k - start.
C9_BytesAliasInput ==
    pc = "written" =>
        \A i \in 1..NumDest :
            output[i] = "*[]byte" /\ GroupPresent(i) =>
                \A k \in matches[2 * i + 1]..(matches[2 * i + 2] - 1) :
                    Deref(buf, cells[i].v)[k - matches[2 * i + 1] + 1] = buf[off + k + 1]

\* The caller has overwritten the second byte of a two-byte group bound to
\* a raw-byte cell, and reads the new byte through the cell.
C9_Witness ==
    /\ pc = "written" /\ groups = 1
    /\ output = <<"*[]byte">>
    /\ <<matches[3], matches[4]>> = <<0, 2>>
    /\ buf0 = <<"7", "7">> /\ buf = <<"7", "x">>
    /\ Deref(buf, cells[1].v) = <<"7", "x">>

\* C10: a text destination holds its own copy of the group's bytes: after a
\* successful call, writing to the input buffer does not change the text.
C10_TextIsACopy ==
    pc = "written" =>
        \A i \in 1..NumDest :
            output[i] = "*string" => Deref(buf, cells[i].v) = GroupBytes(i)

\* A raw-byte cell and a text cell on the same group: after the write the
\* raw-byte cell shows the new byte, the text cell the old one.
C10_Witness ==
    /\ pc = "written" /\ groups = 2
    /\ output = <<"*[]byte", "*string">>
    /\ <<matches[3], matches[4]>> = <<0, 2>>
    /\ <<matches[5], matches[6]>> = <<0, 2>>
    /\ buf0 = <<"7", "7">> /\ buf = <<"x", "7">>
    /\ Deref(buf, cells[1].v) = <<"x", "7">>
    /\ Deref(buf, cells[2].v) = <<"7", "7">>

\* C11: a span destination that Scan has processed holds the offset pair of
\* its capture group exactly as the matcher reported it, whatever bytes the
\* group holds (present, empty or absent); the offsets of a present group
\* lie within the input slice passed to the call and count from its start,
\* so input[Start:End] is the group also after the caller re-sliced.
C11_SpanVerbatim ==
    (pc = "done" /\ Matched /\ NumDest <= groups) =>
        \A i \in 1..NumDest :
            (output[i] = "*Span" /\ i <= processed) =>
                /\ cells[i] = SpanCell(Span(matches[2 * i + 1], matches[2 * i + 2]))
                /\ (err # Nil => processed > i)
                /\ GroupPresent(i) =>
                      /\ 0 <= cells[i].v.Start
                      /\ cells[i].v.Start <= cells[i].v.End
                      /\ cells[i].v.End <= Input.len
                      /\ Deref(buf, SliceOf(Input, cells[i].v.Start, cells[i].v.End))
                            = GroupBytes(i)

\* A call on a re-sliced input (input = array[1:]) whose group is the first
\* byte of the input, the second of the array: the span is (0, 1).
C11_Witness ==
    /\ pc = "done" /\ Matched /\ groups = 1
    /\ off = 1 /\ buf = <<"x", "7">>
    /\ output = <<"*Span">>
    /\ err = Nil
    /\ cells[1] = SpanCell(Span(0, 1))
    /\ GroupBytes(1) = <<"7">>

\* C12: a callback destination that Scan reaches is invoked once with the
\* bytes of its group; when it returns an error the call fails there and
\* returns that very error, neither wrapped nor replaced; when it returns
\* nil the call goes on to the next destination.
C12_CallbackErrorAsIs ==
    (pc = "done" /\ Matched /\ NumDest <= groups) =>
        \A i \in 1..NumDest :
            (output[i] \in FuncKinds /\ i <= processed) =>
                /\ Cardinality({e \in 1..Len(events) : events[e].pos = i}) = 1
                /\ \E e \in 1..Len(events) : events[e] = Call(i, GroupBytes(i))
                /\ output[i] = "fail" => (err = CallbackError /\ processed = i)
                /\ output[i] = "savearg" =>
                      /\ (err # Nil => processed > i)
                      /\ (i < NumDest => processed >= i + 1)

\* savearg returns nil, then fail returns its error: the call returns it.
C12_Witness ==
    /\ pc = "done" /\ Matched /\ groups = 2
    /\ output = <<"savearg", "fail">>
    /\ GroupBytes(1) = <<"x">> /\ GroupBytes(2) = <<"7">>
    /\ processed = 2
    /\ err = CallbackError
    /\ events = <<Call(1, <<"x">>), Call(2, <<"7">>)>>

\* The kinds the specification lists as recognized, among those of the
\* model, and the kinds the type switch of assign has a case for.
ListedKinds == DestKinds \ {"*mytype"}

SwitchKinds == DestKinds \ {"*mytype", "*bool"}

\* Scan failed at position i with the unsupported-type error, which names
\* the destination's type and carries the bytes of its group.
UnsupportedAt(i) ==
    /\ processed = i
    /\ err = parseError(<<"unsupported type", output[i]>>, GroupBytes(i))

TrueLiterals == {<<"1">>} \cup CaseVariants(<<"t", "r", "u", "e">>)

FalseLiterals == {<<"0">>} \cup CaseVariants(<<"f", "a", "l", "s", "e">>)

\* C14: the conversion of a sub-match into a boolean cell succeeds exactly
\* for "0", "1" and "true", "false" in any letter case, storing false for
\* "0"/"false" and true for "1"/"true"; for every other text (the empty
\* one, a part of a literal, a padded literal) it fails with the
\* invalid-boolean error and the cell keeps the value it had.
C14_BoolLiteralSet ==
    [][ (pc = "idle" /\ pc' = "done") =>
            /\ buf \in TrueLiterals => (err' = Nil /\ cells' = <<BoolCell(TRUE)>>)
            /\ buf \in FalseLiterals => (err' = Nil /\ cells' = <<BoolCell(FALSE)>>)
            /\ buf \notin TrueLiterals \cup FalseLiterals =>
                  /\ err' = parseError(<<"not a valid bool">>, buf)
                  /\ cells' = cells ]_vars

\* "tRuE" has been stored as true.
C14_Witness ==
    /\ pc = "done"
    /\ buf = <<"t", "R", "u", "E">>
    /\ err = Nil
    /\ cells = <<BoolCell(TRUE)>>

\* a < b for integers.
LessInt(a, b) ==
    IF a.neg # b.neg THEN a.neg
    ELSE IF a.neg THEN Less(b.mag, a.mag)
    ELSE Less(a.mag, b.mag)

\* The value is one the type of the destination can hold in this build.
InRange(v, r, size) ==
    /\ ~LessInt(v, MinValue(r, size))
    /\ ~LessInt(MaxValue(r, size), v)

\* C15: for every integer destination type and every value of that type,
\* the minimum and the maximum included, scanning the decimal text of the
\* value into a cell of the type succeeds and stores exactly the value.
C15_NumericRoundTrip ==
    (pc = "scanned" /\ InRange(value, output[1], intSize)) =>
        /\ err = Nil
        /\ cells = <<IntCell(value)>>

\* The minimum of int64 went through its text and back.
C15_Witness ==
    /\ pc = "scanned"
    /\ output = <<"*int64">>
    /\ value = MinValue("*int64", 64)
    /\ buf = <<"-", "9", "2", "2", "3", "3", "7", "2", "0", "3", "6", "8", "5", "4",
               "7", "7", "5", "8", "0", "8">>
    /\ err = Nil
    /\ cells = <<IntCell(value)>>

\* The error says the number is out of range: strconv's range error, or
\* the out-of-range error of assign for a cell of the width of the build.
IsRangeError(e, r) ==
    \/ e.kind = "NumError" /\ e.err = ErrRange
    \/ e.kind = "parse" /\ e.why = <<"out of range for", r>>

IsSyntaxError(e) == e.kind = "NumError" /\ e.err = ErrSyntax

\* C16 as stated: for every width and signedness the decimal text of
\* maximum + 1 and of minimum - 1 fails with the out-of-range error, not
\* the invalid-number error, and the cell is not written.
C16_OneOutsideIsRangeError ==
    (pc = "scanned" /\ value \in {Add1(MaxValue(output[1], intSize)),
                                  Sub1(MinValue(output[1], intSize))}) =>
        /\ IsRangeError(err, output[1])
        /\ cells = OldCells(output)

\* C16, amended: for every width and signedness the decimal text of
\* maximum + 1, and for the signed types that of minimum - 1, fails with
\* the out-of-range error, not the invalid-number error; for the unsigned
\* types the text of minimum - 1, "-1", fails with the invalid-number
\* error, a sign being no part of an unsigned number.  In every one of
\* these cases the cell keeps its value: nothing truncated or wrapped is
\* stored.
C16_OneOutsideFails ==
    pc = "scanned" =>
        /\ value = Add1(MaxValue(output[1], intSize)) =>
              (IsRangeError(err, output[1]) /\ cells = OldCells(output))
        /\ value = Sub1(MinValue(output[1], intSize)) =>
              /\ cells = OldCells(output)
              /\ IF IsSigned(output[1]) THEN IsRangeError(err, output[1])
                 ELSE err = NumError("ParseUint", buf, ErrSyntax)

\* The text of the maximum of uint64 plus one: a range error, the cell
\* unchanged.
C16_Witness ==
    /\ pc = "scanned"
    /\ output = <<"*uint64">>
    /\ value = Add1(MaxValue("*uint64", 64))
    /\ buf = <<"1", "8", "4", "4", "6", "7", "4", "4", "0", "7", "3", "7", "0", "9",
               "5", "5", "1", "6", "1", "6">>
    /\ err = NumError("ParseUint", buf, ErrRange)
    /\ cells = <<IntCell(IntOf(99))>>

\* The integer a text stands for by a rule of base selection: a sign, for
\* the signed types only; then prefixed(u) says whether a two-byte prefix
\* opens the unsigned part u, and base(u) is the base.  A two-byte prefix
\* is no digit and needs a digit after it; a leading 0 is itself a digit.
\* An underscore can stand after a digit, or after a two-byte prefix, and
\* before a digit if sep holds, and is not allowed otherwise.
HasSign(t) == t # <<>> /\ t[1] \in {"+", "-"}

Unsign(t) == IF HasSign(t) THEN Tail(t) ELSE t

NoUnderscore(ds) == SelectSeq(ds, LAMBDA c : c # "_")

RECURSIVE Horner(_, _, _)
Horner(base, ds, acc) ==
    IF ds = <<>> THEN acc
    ELSE Horner(base, Tail(ds), MulAdd(acc, base, DigitVal(Head(ds))))

Separates(ds, prefixed, base) ==
    \A i \in 1..Len(ds) :
        ds[i] = "_" =>
            /\ i < Len(ds) /\ DigitVal(ds[i + 1]) \in 0..(base - 1)
            /\ IF i = 1 THEN prefixed ELSE DigitVal(ds[i - 1]) \in 0..(base - 1)

WellFormed(ds, prefixed, base, sep) ==
    /\ NoUnderscore(ds) # <<>>
    /\ \A i \in 1..Len(ds) : ds[i] = "_" \/ DigitVal(ds[i]) \in 0..(base - 1)
    /\ IF sep THEN Separates(ds, prefixed, base) ELSE NoUnderscore(ds) = ds

\* The rule the code follows: 0x, 0b and 0o in either case, a leading 0,
\* or decimal; underscores separate digits.
PrefixLetters == {"x", "X", "b", "B", "o", "O"}

Prefixed(u) == Len(u) >= 2 /\ u[1] = "0" /\ u[2] \in PrefixLetters

BaseOf(u) ==
    IF Prefixed(u)
    THEN (IF u[2] \in {"x", "X"} THEN 16 ELSE IF u[2] \in {"b", "B"} THEN 2 ELSE 8)
    ELSE IF u # <<>> /\ u[1] = "0" THEN 8
    ELSE 10

\* The rule as the specification states it: 0x in either case, a leading 0,
\* or decimal, and nothing else.
StatedPrefixed(u) == Len(u) >= 2 /\ u[1] = "0" /\ u[2] \in {"x", "X"}

StatedBaseOf(u) ==
    IF StatedPrefixed(u) THEN 16
    ELSE IF u # <<>> /\ u[1] = "0" THEN 8
    ELSE 10

DigitsAfter(u, prefixed) == IF prefixed THEN SubSeq(u, 3, Len(u)) ELSE u

\* Scan did with the literal in buf what the rule says: a literal that is
\* not well formed, or signed for an unsigned type, is a syntax error; one
\* whose value the type cannot hold is a range error; in both cases the
\* cell keeps its value; any other literal is stored with its value in the
\* base of the rule.
FollowsRule(r, u, prefixed, base, sep) ==
    IF (HasSign(buf) /\ ~IsSigned(r)) \/ ~WellFormed(DigitsAfter(u, prefixed), prefixed, base, sep)
    THEN IsSyntaxError(err) /\ cells = OldCells(output)
    ELSE IF ~InRange(Signed(buf[1] = "-", Horner(base, NoUnderscore(DigitsAfter(u, prefixed)), <<>>)),
                     r, intSize)
    THEN IsRangeError(err, r) /\ cells = OldCells(output)
    ELSE /\ err = Nil
         /\ cells = <<IntCell(Signed(buf[1] = "-",
                                     Horner(base, NoUnderscore(DigitsAfter(u, prefixed)), <<>>)))>>

\* C17 as stated: a sub-match with prefix 0x or 0X is parsed as hexadecimal,
\* one with a leading 0 as octal, every other one as decimal, and no other
\* prefix selects a base.
C17_HexOctalDecimalOnly ==
    pc = "parsed" =>
        FollowsRule(output[1], Unsign(buf), StatedPrefixed(Unsign(buf)),
                    StatedBaseOf(Unsign(buf)), FALSE)

\* C17, amended: a sub-match with prefix 0x or 0X is parsed as hexadecimal,
\* with prefix 0b or 0B as binary, with prefix 0o or 0O as octal, any other
\* one with a leading 0 as octal, and every other sub-match as decimal; a
\* two-byte prefix needs a digit after it; single underscores may separate
\* digits, or the two-byte prefix from the first digit, and do not change
\* the value.
C17_BaseSelection ==
    pc = "parsed" =>
        FollowsRule(output[1], Unsign(buf), Prefixed(Unsign(buf)),
                    BaseOf(Unsign(buf)), TRUE)

\* "0x10" stored as 16 in an int16.
C17_Witness ==
    /\ pc = "parsed"
    /\ output = <<"*int16">>
    /\ buf = <<"0", "x", "1", "0">>
    /\ err = Nil
    /\ cells = <<IntCell(IntOf(16))>>

\* Two cells hold the same value: for a raw-byte cell the same bytes, and
\* nil or not alike, wherever they lie.
SameValue(a, b) ==
    IF a.t = "bytes"
    THEN /\ b.t = "bytes"
         /\ (a.v.ptr = -1) <=> (b.v.ptr = -1)
         /\ Deref(buf, a.v) = Deref(buf, b.v)
    ELSE a = b

\* The finished call left what the call that returned r leaves.
SameAsCall(r) ==
    /\ err = r.err
    /\ processed = r.n
    /\ events = r.events
    /\ \A i \in 1..NumDest : SameValue(cells[i], r.cells[i])

\* C18: ScanString(p, s, dests) returns the outcome, leaves the values in
\* all destination cells, and makes the callback invocations, with the
\* same bytes in the same order, of Scan(p, bytes of s, dests).
C18_ScanStringIsScan ==
    pc = "done" =>
        SameAsCall(ScanResult(buf, Input, matches, output, OldCells(output)))

\* ScanString has stored a raw-byte cell and called a callback.
C18_Witness ==
    /\ pc = "done" /\ Matched /\ groups = 2
    /\ output = <<"*[]byte", "savearg">>
    /\ GroupBytes(1) = <<"x">> /\ GroupBytes(2) = <<"7">>
    /\ err = Nil
    /\ cells[1] = BytesCell(Fresh(<<"x">>))
    /\ events = <<Store(1), Call(2, <<"7">>)>>

\* The errors Scan returns.
ErrorKinds == {"nil", "wrapped", "insufficient", "parse", "NumError", "callback"}

\* C19: Scan never panics, whatever the input bytes and whatever offset
\* list the matcher returns for them, absent and zero-length groups
\* included: the offsets of every group it slices the input by are within
\* the input, and the call ends by returning nil or an error.
C19_NoPanic ==
    pc = "done" =>
        /\ err # Panic
        /\ err.kind \in ErrorKinds
        /\ \A i \in 1..processed :
              GroupPresent(i) =>
                  /\ 0 <= matches[2 * i + 1]
                  /\ matches[2 * i + 1] <= matches[2 * i + 2]
                  /\ matches[2 * i + 2] <= Len(buf) - off

\* An absent group, then a zero-length group at the end of the input that
\* an integer cell cannot parse: the call returns the syntax error.
C19_Witness ==
    /\ pc = "done" /\ Matched /\ groups = 2
    /\ Len(buf) = 2 /\ off = 0
    /\ output = <<"*string", "*int8">>
    /\ ~GroupPresent(1)
    /\ <<matches[5], matches[6]>> = <<2, 2>>
    /\ processed = 2
    /\ err = NumError("ParseInt", <<>>, ErrSyntax)

\* The destinations followed by a discard marker for every group that has
\* no destination.
Padded == output \o [k \in 1..(groups - NumDest) |-> "nil"]

\* The offsets the matcher returned with those of the groups that have no
\* destination replaced by gs.
WithExtraGroups(gs) == SubSeq(matches, 1, 2 + 2 * NumDest) \o Flatten(gs)

\* The call that returned r left the outcome, the cells of the D
\* destinations and the events of the finished call.
SameOnDestinations(r) ==
    /\ r.err = err
    /\ r.events = events
    /\ SubSeq(r.cells, 1, NumDest) = cells

\* C20: with fewer destinations than capture groups, Scan returns the
\* outcome and leaves the cell values of the call with the same
\* destinations followed by a discard marker for each further group; and
\* whatever the further groups matched, or whether they took part in the
\* match at all, the result is the same.
C20_ExtraGroupsDiscarded ==
    (pc = "done" /\ Matched /\ NumDest < groups) =>
        /\ SameOnDestinations(ScanResult(buf, Input, matches, Padded, OldCells(Padded)))
        /\ \A gs \in [1..(groups - NumDest) -> GroupPairs(matches[1], matches[2])] :
              SameOnDestinations(ScanResult(buf, Input, WithExtraGroups(gs), output,
                                            OldCells(output)))

\* One text cell for a pattern with two groups, the second of which
\* matched a byte that no destination receives.
C20_Witness ==
    /\ pc = "done" /\ Matched /\ groups = 2
    /\ output = <<"*string">>
    /\ GroupBytes(1) = <<"x">> /\ GroupBytes(2) = <<"7">>
    /\ err = Nil
    /\ Deref(buf, cells[1].v) = <<"x">>

----------------------------------------------------------------------------
\* What call c does when it runs alone: Scan on its input and destinations,
\* the Pattern answering as it does for that input.
Alone(c) ==
    ScanResult(calls[c].input, InputOf(c), re.find[calls[c].input],
               calls[c].output, OldCells(calls[c].output))

\* C21: when several Scan calls run at once on one Pattern, each with its
\* own input and its own destination cells, every call that has returned
\* has the outcome, the stored values and the callback invocations it has
\* when run alone, however the statements of the calls interleave.
C21_ConcurrentAsAlone ==
    \A c \in DOMAIN calls :
        calls[c].pc = "returned" =>
            /\ calls[c].err = Alone(c).err
            /\ calls[c].cells = Alone(c).cells
            /\ calls[c].events = Alone(c).events

\* Call a has returned nil with both its destinations filled while call b,
\* on another input for which the Pattern answers otherwise, is inside its
\* loop with one destination filled.
C21_Witness ==
    /\ DOMAIN calls = Calls
    /\ calls["a"].pc = "returned" /\ calls["a"].err = Nil
    /\ Len(calls["a"].output) = 2
    /\ calls["b"].pc = "loop" /\ calls["b"].i = 1
    /\ Len(calls["b"].output) = 2
    /\ calls["a"].input # calls["b"].input
    /\ calls["a"].matches # calls["b"].matches
    /\ calls["a"].cells # calls["b"].cells

----------------------------------------------------------------------------
\* The invocations of the callback at 1-based position i that Scan made.
Invocations(i) ==
    {e \in 1..Len(events) : events[e].op = "call" /\ events[e].pos = i}

\* The pattern matched, the arity check passed, and every destination
\* before 1-based position i succeeded.
Reaches(i) ==
    /\ Matched
    /\ Len(matches) >= 2 + 2 * NumDest
    /\ \A j \in 1..(i - 1) : ConvertsAt(j)

\* C22: a callback destination at position i is invoked exactly once in a
\* Scan call, with exactly the bytes of capture group i+1, if and only if
\* the pattern matched, the arity check passed and every destination at a
\* position before i succeeded; otherwise it is not invoked at all.
C22_CallbackOnceIffReached ==
    pc = "done" =>
        \A i \in 1..NumDest :
            output[i] \in FuncKinds =>
                IF Reaches(i)
                THEN /\ Cardinality(Invocations(i)) = 1
                     /\ \A e \in Invocations(i) : events[e].arg = GroupBytes(i)
                ELSE Invocations(i) = {}

\* The text before the callback converts, and the callback runs once with
\* the bytes of its group.
C22_Witness ==
    /\ pc = "done" /\ Matched /\ groups = 2
    /\ output = <<"*string", "savearg">>
    /\ GroupBytes(2) = <<"7">>
    /\ err = Nil
    /\ events = <<Store(1), Call(2, <<"7">>)>>

----------------------------------------------------------------------------
\* The text has no digit: it is no literal of any integer or float type
\* unless it spells an infinity or a NaN.
NoDigit(t) == \A k \in 1..Len(t) : ~InSeq(Digits, t[k])

Has(t, c) == \E k \in 1..Len(t) : t[k] = c

\* The text is no literal of the type of a destination of kind r: it has no
\* digit (and no letter of "inf" or "nan"); or it has a point and r is an
\* integer; or it has an x but not the p of a hexadecimal float's exponent.
NotALiteral(r, t) ==
    \/ NoDigit(t) /\ ~Has(t, "n") /\ ~Has(t, "N")
    \/ r \in IntKinds /\ Has(t, ".")
    \/ r \in FloatKinds /\ Has(t, "x") /\ ~Has(t, "p") /\ ~Has(t, "P")

IsUnsupported(e, r) == e.kind = "parse" /\ e.why = <<"unsupported type", r>>

\* The one cell of the call holds what it held before, and nothing was
\* stored.
CellKept == cells = OldCells(output) /\ events = <<>>

----------------------------------------------------------------------------
\* What is left of the input: the bytes from off on.
Remaining == SubSeq(buf, off + 1, Len(buf))

\* A text of the Pattern stands in the remaining input from s to e.
MatchesAt(s, e) == s <= e /\ e <= Len(Remaining) /\ SubSeq(Remaining, s + 1, e) \in re.lang

\* The call reported the leftmost match in what remained: the span, counted
\* from the start of the remaining input, holds a text of the Pattern, and
\* none begins before it.
ReportsLeftmost ==
    /\ cells[1].t = "span"
    /\ 0 <= cells[1].v.Start
    /\ MatchesAt(cells[1].v.Start, cells[1].v.End)
    /\ \A s \in 0..(cells[1].v.Start - 1) : \A e \in s..Len(Remaining) : ~MatchesAt(s, e)

NothingMatches == \A s \in 0..Len(Remaining) : \A e \in s..Len(Remaining) : ~MatchesAt(s, e)

\* Going on after a match that is not empty leaves less input than before.
Shrinks ==
    (pc = "done" /\ pc' = "idle" /\ cells[1].v.End > cells[1].v.Start) =>
        /\ off' = off + cells[1].v.End
        /\ Len(buf) - off' < Len(buf) - off
        /\ off' <= Len(buf)

\* C24: with the whole pattern in a capture group bound to a Span and the
\* caller calling Scan again on input[span.End:] after each success, every
\* call reports the leftmost match in the remaining input with offsets
\* counted from the start of the remaining input, or fails with NotFound
\* when nothing matches there; the remaining input gets shorter at every
\* success whose match is not empty; so when the Pattern matches no empty
\* text, Scan returns NotFound after finitely many calls.
C24_RepeatedScanEnds ==
    /\ [](pc = "done" =>
            IF err = Nil THEN ReportsLeftmost
            ELSE ErrorsIs(err, NotFound) /\ NothingMatches)
    /\ [][Shrinks]_vars
    /\ (<<>> \notin re.lang => <>(pc = "done" /\ ErrorsIs(err, NotFound)))

\* "7x" scanned for a Pattern of the texts "7" and "x": two successes, and
\* the third call, on the empty rest, returns NotFound.
C24_Witness ==
    /\ pc = "done"
    /\ "lang" \in DOMAIN re
    /\ re.lang = {<<"7">>, <<"x">>}
    /\ buf = <<"7", "x">>
    /\ off = 2
    /\ ErrorsIs(err, NotFound)

----------------------------------------------------------------------------
\* A step of call c: no frame but its own changes, and of its own neither
\* the input array nor the destination list; of its cells none but the one
\* at the position the loop is at, and that one only inside the loop.
StepOf(c) ==
    /\ \A d \in Calls \ {c} : calls'[d] = calls[d]
    /\ calls'[c].input = calls[c].input
    /\ calls'[c].output = calls[c].output
    /\ \A k \in 1..Len(calls[c].cells) :
          calls'[c].cells[k] # calls[c].cells[k] =>
              calls[c].pc = "loop" /\ k = calls[c].i + 1
    /\ Len(calls'[c].cells) = Len(calls[c].cells)
    /\ \A e \in (Len(calls[c].events) + 1)..Len(calls'[c].events) :
          calls'[c].events[e].pos = calls[c].i + 1

\* C25: a Scan call changes nothing but the destination cells at the
\* positions it processes (a callback's own store being that of its
\* position): the bytes of its input and the Pattern are the same after
\* every statement of the call, on success and on every failure path, and
\* a cell that was not passed to the call, here one of another call, is
\* never written.
C25_Frame ==
    [][re' = re /\ \E c \in Calls : StepOf(c)]_vars

\* Call a has failed at its second destination: the first cell is written,
\* the second and the input are as before, and nothing of call b, which
\* has not begun, has changed.
C25_Witness ==
    /\ DOMAIN calls = Calls
    /\ calls["a"].pc = "returned"
    /\ calls["a"].output = <<"savearg", "*int8">>
    /\ calls["a"].err # Nil /\ calls["a"].i = 2
    /\ calls["a"].cells[1] # OldCell("savearg")
    /\ calls["a"].cells[2] = OldCell("*int8")
    /\ calls["b"] = NewFrame(calls["b"].input, calls["b"].output)

----------------------------------------------------------------------------
\* The text of capture group i in the string Find was given.
GroupText(i) == SubSeq(buf0, matches[2 * i + 1] + 1, matches[2 * i + 2])

\* The result at 1-based position i has had the text of its group parsed
\* and stored.
ParsedAndStored(i) ==
    /\ GroupPresent(i)
    /\ assignResult(GroupText(i), output[i], OldCell(output[i]), i).err = Nil
    /\ cells[i] = assignResult(GroupText(i), output[i], OldCell(output[i]), i).cell

\* C26 as stated: in the string-input Find, a nil result whose capture
\* group is absent is a no-op after which the loop goes on: Find returns
\* true only if every non-nil result in the list, those after such a nil
\* included, has had its sub-match parsed and stored.
C26_TrueOnlyIfAllStored ==
    (pc = "done" /\ err = Nil) =>
        \A i \in 1..NumDest : output[i] # "nil" => ParsedAndStored(i)

----------------------------------------------------------------------------
\* The offsets of the finished call with the absent group i taking part
\* instead, with a match of no bytes at offset k.
EmptyAt(i, k) == [matches EXCEPT ![2 * i + 1] = k, ![2 * i + 2] = k]

\* What the call returns for those offsets.
AsEmpty(i, k) == ScanResult(buf0, Input, EmptyAt(i, k), output, OldCells(output))

\* Two cells hold the same content: the same bytes for raw-byte cells, the
\* same value for the others.
SameContent(a, b) ==
    IF a.t = "bytes"
    THEN b.t = "bytes" /\ a.v.len = b.v.len /\ Deref(buf0, a.v) = Deref(buf0, b.v)
    ELSE a = b

\* The finished call and the call that returned r have the same outcome,
\* made the same callback invocations and left the same content in every
\* cell, but for a Span cell bound to group i.
SameButSpan(i, r) ==
    /\ err = r.err
    /\ processed = r.n
    /\ events = r.events
    /\ \A j \in 1..NumDest :
          \/ j = i /\ output[j] = "*Span"
          \/ SameContent(cells[j], r.cells[j])

\* C27: a missing sub-expression is treated as empty.  For every
\* destination kind other than Span, the outcome and the stored content
\* when the capture group is absent are those of the call in which the
\* group took part with a match of no bytes, wherever that match lies: a
\* text cell receives the empty string, a raw-byte cell a range of no
\* bytes, a callback is invoked with no bytes, and an integer or float cell
\* fails to parse.
C27_AbsentAsEmpty ==
    /\ pc = "idle" =>
          \A r \in IntKinds \cup FloatKinds : \A k \in 0..Input.len :
              /\ assign(r, NilSlice, Span(-1, -1), buf, OldCell(r), 1)
                    = assign(r, SliceOf(Input, k, k), Span(k, k), buf, OldCell(r), 1)
              /\ IsSyntaxError(assign(r, NilSlice, Span(-1, -1), buf, OldCell(r), 1).err)
    /\ (pc = "done" /\ Matched) =>
          \A i \in 1..groups :
              ~GroupPresent(i) =>
                  \A k \in 0..Input.len : SameButSpan(i, AsEmpty(i, k))

\* Both groups are absent: the raw-byte cell gets a range of no bytes and
\* the callback is invoked with no bytes, and the call succeeds.
C27_Witness ==
    /\ pc = "done" /\ Matched /\ groups = 2
    /\ output = <<"*[]byte", "savearg">>
    /\ ~GroupPresent(1) /\ ~GroupPresent(2)
    /\ Input.len > 0
    /\ err = Nil
    /\ cells[1] = BytesCell(NilSlice)
    /\ events = <<Store(1), Call(2, <<>>)>>

----------------------------------------------------------------------------
\* The bytes of input as Scan was passed it.
InputBytes == SubSeq(buf0, off + 1, Len(buf0))

\* The call of the finished call's arguments with the destination at
\* position i replaced by one of kind r.
Rebound(i, r) ==
    ScanResult(buf0, Input, matches, [output EXCEPT ![i] = r],
               OldCells([output EXCEPT ![i] = r]))

\* The Span the finished call stored at position i lies within input, and
\* the bytes of input it delimits are those cell c holds.
SpanDelimits(i, c) ==
    /\ 0 <= cells[i].v.Start
    /\ cells[i].v.Start <= cells[i].v.End
    /\ cells[i].v.End <= Len(InputBytes)
    /\ Deref(buf0, c.v) = SubSeq(InputBytes, cells[i].v.Start + 1, cells[i].v.End)

\* C28: after a successful Scan, for every capture group that took part
\* in the match, a Span destination bound to the group holds offsets with
\* 0 <= Start <= End <= len(input), and input[Start:End] is exactly the
\* bytes a raw-byte or a text destination bound to the same group
\* receives.
C28_SpanAndContentAgree ==
    (pc = "done" /\ err = Nil) =>
        \A i \in 1..NumDest :
            (output[i] = "*Span" /\ GroupPresent(i)) =>
                \A r \in {"*[]byte", "*string"} :
                    /\ Rebound(i, r).err = Nil
                    /\ SpanDelimits(i, Rebound(i, r).cells[i])

\* A Span cell bound to a group that is a proper part of the input.
C28_Witness ==
    /\ pc = "done" /\ Matched /\ groups = 1
    /\ output = <<"*Span">>
    /\ err = Nil
    /\ Len(InputBytes) = 2
    /\ cells[1] = SpanCell(Span(1, 2))
    /\ Deref(buf0, Rebound(1, "*[]byte").cells[1].v) = <<buf0[2]>>

====
